---- MODULE Spec2Model ----
(***************************************************************************)
(* H.235 media encryption engine of h323plus (src/h235/h235crypto.cxx):    *)
(* the ciphertext-stealing helper H235CryptoHelper, the crypto engine      *)
(* H235CryptoEngine and the session glue H235Session.                      *)
(*                                                                         *)
(* Byte buffers are sequences of bytes (0..255); a C offset k is the       *)
(* sequence index k+1.  The AES block primitive of OpenSSL is replaced by  *)
(* a keyed permutation of 16-byte blocks with the same interface (block    *)
(* size 16, IV length 16, key length 16/24/32, CBC chaining by XOR).       *)
(***************************************************************************)
EXTENDS Integers, Sequences, FiniteSets, TLC

(***************************************************************************)
(* Program constants                                                       *)
(***************************************************************************)
IV_SEQUENCE_LEN == 6
\* block size and IV length of every AES-CBC cipher the engine selects
AES_BLOCK_SIZE == 16
\* EVP_MAX_BLOCK_LENGTH: size of buf, final_buf and of the tmp arrays
EVP_MAX_BLOCK_LENGTH == 32
\* EVP_MAX_IV_LENGTH: size of the iv arrays of Encrypt / Decrypt
EVP_MAX_IV_LENGTH == 16
\* build option H323_H235_AES256 (AES-192 and AES-256 compiled in)
H323_H235_AES256 == TRUE

ID_AES128 == "AES128"
ID_AES192 == "AES192"
ID_AES256 == "AES256"
ID_UNKNOWN == "DES"

(***************************************************************************)
(* Bytes and buffers                                                       *)
(***************************************************************************)
\* bit k (of weight w = 2^k) of a ^ b
XorBit(a, b, w) == (((a \div w) + (b \div w)) % 2) * w

\* the C operator ^ on unsigned char
XorByte(a, b) ==
    XorBit(a, b, 1) + XorBit(a, b, 2) + XorBit(a, b, 4) + XorBit(a, b, 8)
        + XorBit(a, b, 16) + XorBit(a, b, 32) + XorBit(a, b, 64)
        + XorBit(a, b, 128)

\* out[i] = x[i] ^ y[i] for i < n, the loops of DecryptFinalCTS
XorBuf(x, y, n) == [i \in 1..n |-> XorByte(x[i], y[i])]

Zeros(n) == [i \in 1..n |-> 0]

Max(a, b) == IF a >= b THEN a ELSE b

\* the n bytes of s starting at C offset off
Sub(s, off, n) == SubSeq(s, off + 1, off + n)

\* memcpy(dst + off, src, n): a write past the end of dst lengthens dst
Memcpy(dst, off, src, n) ==
    IF n <= 0 THEN dst
    ELSE SubSeq(dst, 1, off) \o SubSeq(src, 1, n) \o SubSeq(dst, off + n + 1, Len(dst))

\* memset(dst + off, c, n)
Memset(dst, off, c, n) ==
    IF n <= 0 THEN dst
    ELSE SubSeq(dst, 1, off) \o [i \in 1..n |-> c] \o SubSeq(dst, off + n + 1, Len(dst))

(***************************************************************************)
(* The block primitive (OpenSSL EVP, AES in CBC mode)                      *)
(***************************************************************************)
\* key length the cipher reads from the key pointer
KeyLen(oid) ==
    IF oid = ID_AES128 THEN 16
    ELSE IF H323_H235_AES256 /\ oid = ID_AES192 THEN 24
    ELSE IF H323_H235_AES256 /\ oid = ID_AES256 THEN 32
    ELSE 0

Supported(oid) == KeyLen(oid) > 0

\* round key byte i of the key schedule
KeySched(key, i) ==
    (key[i] + (IF i + 16 <= Len(key) THEN 3 * key[i + 16] ELSE 0) + i) % 256

Rot(i) == (i % AES_BLOCK_SIZE) + 1
RotInv(j) == ((j + AES_BLOCK_SIZE - 2) % AES_BLOCK_SIZE) + 1

\* the raw block encryption E_K and decryption D_K (a keyed permutation)
BlockE(key, b) ==
    [i \in 1..AES_BLOCK_SIZE |-> (5 * b[Rot(i)] + KeySched(key, i)) % 256]

BlockD(key, c) ==
    [j \in 1..AES_BLOCK_SIZE |->
        (205 * (c[RotInv(j)] + 256 - KeySched(key, RotInv(j)))) % 256]

\* a cipher context that was never allocated (m_encryptCtx == NULL)
NullCtx ==
    [alloc |-> FALSE, key |-> <<>>, iv |-> <<>>, encrypt |-> FALSE,
     mode |-> "NONE", padding |-> TRUE, block_size |-> 0, iv_len |-> 0,
     buf |-> <<>>, buf_len |-> 0]

\* EVP_Cipher(ctx, out, in, inl) for inl a multiple of the block size:
\* CBC chaining through ctx->iv; always returns 1 for AES-CBC
RECURSIVE CipherBlocks(_, _, _, _, _)
CipherBlocks(key, enc, mode, iv, in) ==
    IF Len(in) < AES_BLOCK_SIZE THEN [out |-> <<>>, iv |-> iv]
    ELSE LET blk == Sub(in, 0, AES_BLOCK_SIZE)
             rest == Sub(in, AES_BLOCK_SIZE, Len(in) - AES_BLOCK_SIZE)
             o == IF mode = "ECB"
                  THEN (IF enc THEN BlockE(key, blk) ELSE BlockD(key, blk))
                  ELSE IF enc
                       THEN BlockE(key, XorBuf(blk, iv, AES_BLOCK_SIZE))
                       ELSE XorBuf(BlockD(key, blk), iv, AES_BLOCK_SIZE)
             niv == IF mode = "ECB" THEN iv ELSE IF enc THEN o ELSE blk
             r == CipherBlocks(key, enc, mode, niv, rest)
         IN [out |-> o \o r.out, iv |-> r.iv]

Ciphered(ctx, r) == [ret |-> 1, out |-> r.out, ctx |-> [ctx EXCEPT !.iv = r.iv]]

EVP_Cipher(ctx, in, inl) ==
    Ciphered(ctx, CipherBlocks(ctx.key, ctx.encrypt, ctx.mode, ctx.iv,
                               Sub(in, 0, inl)))

(***************************************************************************)
(* H235CryptoHelper                                                        *)
(* Every operation returns [ret, outl, out, h, ctx]: the C return value,   *)
(* *outl, the bytes written from the out pointer on, the helper and the    *)
(* cipher context afterwards.                                              *)
(***************************************************************************)
\* H235CryptoHelper::H235CryptoHelper(): both arrays zeroed, then Reset()
NewHelper ==
    [buf |-> Zeros(EVP_MAX_BLOCK_LENGTH), buf_len |-> 0,
     final_buf |-> Zeros(EVP_MAX_BLOCK_LENGTH), final_used |-> 0]

\* a Reset that leaves the counters as they are
ResetKeepsCounters(h) == h

Reset(h) == [h EXCEPT !.buf_len = 0, !.final_used = 0]

HRes(ret, outl, out, h, ctx) ==
    [ret |-> ret, outl |-> outl, out |-> out, h |-> h, ctx |-> ctx]

\* a CTS update that stages a short input only when it is shorter than a block
EncryptUpdateCTSStagesPartial(h, ctx, in, inl) ==
    LET bl == ctx.block_size IN
    IF inl <= 0 THEN HRes(IF inl = 0 THEN 1 ELSE 0, 0, <<>>, h, ctx)
    ELSE IF h.buf_len + inl < bl THEN
        HRes(1, 0, <<>>,
             [h EXCEPT !.buf = Memcpy(h.buf, h.buf_len, in, inl),
                       !.buf_len = h.buf_len + inl], ctx)
    ELSE
        LET c1 == IF h.final_used # 0
                  THEN EVP_Cipher(ctx, h.final_buf, bl)
                  ELSE [ret |-> 1, out |-> <<>>, ctx |-> ctx]
            take == bl - h.buf_len
            buf1 == Memcpy(h.buf, h.buf_len, in, take)
            in1 == Sub(in, take, Len(in) - take)
            inl1 == inl - take
        IN  IF inl1 <= bl THEN
                HRes(1, Len(c1.out), c1.out,
                     [buf |-> Memcpy(buf1, 0, in1, inl1), buf_len |-> inl1,
                      final_buf |-> Memcpy(h.final_buf, 0, buf1, bl),
                      final_used |-> 1], c1.ctx)
            ELSE
                LET c2 == EVP_Cipher(c1.ctx, buf1, bl)
                    leftover == inl1 % bl
                    inl2 == IF leftover # 0 THEN inl1 - (bl + leftover)
                                            ELSE inl1 - 2 * bl
                    blen == IF leftover # 0 THEN leftover ELSE bl
                    buf2 == Memcpy(buf1, 0, Sub(in1, inl2 + bl, blen), blen)
                    fb == Memcpy(h.final_buf, 0, Sub(in1, inl2, bl), bl)
                    c3 == EVP_Cipher(c2.ctx, in1, inl2)
                IN  HRes(1, Len(c1.out) + bl + inl2,
                         c1.out \o c2.out \o c3.out,
                         [buf |-> buf2, buf_len |-> blen,
                          final_buf |-> fb, final_used |-> 1], c3.ctx)

EncryptUpdateCTS(h, ctx, in, inl) ==
    LET bl == ctx.block_size IN
    IF inl <= 0 THEN HRes(IF inl = 0 THEN 1 ELSE 0, 0, <<>>, h, ctx)
    ELSE IF h.buf_len + inl <= bl THEN
        \* no more than one block: stage it and return
        HRes(1, 0, <<>>,
             [h EXCEPT !.buf = Memcpy(h.buf, h.buf_len, in, inl),
                       !.buf_len = h.buf_len + inl], ctx)
    ELSE
        LET c1 == IF h.final_used # 0
                  THEN EVP_Cipher(ctx, h.final_buf, bl)
                  ELSE [ret |-> 1, out |-> <<>>, ctx |-> ctx]
            take == bl - h.buf_len
            buf1 == Memcpy(h.buf, h.buf_len, in, take)
            in1 == Sub(in, take, Len(in) - take)
            inl1 == inl - take
        IN  IF inl1 <= bl THEN
                HRes(1, Len(c1.out), c1.out,
                     [buf |-> Memcpy(buf1, 0, in1, inl1), buf_len |-> inl1,
                      final_buf |-> Memcpy(h.final_buf, 0, buf1, bl),
                      final_used |-> 1], c1.ctx)
            ELSE
                LET c2 == EVP_Cipher(c1.ctx, buf1, bl)
                    leftover == inl1 % bl
                    inl2 == IF leftover # 0 THEN inl1 - (bl + leftover)
                                            ELSE inl1 - 2 * bl
                    blen == IF leftover # 0 THEN leftover ELSE bl
                    buf2 == Memcpy(buf1, 0, Sub(in1, inl2 + bl, blen), blen)
                    fb == Memcpy(h.final_buf, 0, Sub(in1, inl2, bl), bl)
                    c3 == EVP_Cipher(c2.ctx, in1, inl2)
                IN  HRes(1, Len(c1.out) + bl + inl2,
                         c1.out \o c2.out \o c3.out,
                         [buf |-> buf2, buf_len |-> blen,
                          final_buf |-> fb, final_used |-> 1], c3.ctx)

EncryptFinalCTS(h, ctx) ==
    LET bl == ctx.block_size
        leftover == h.buf_len
    IN
    IF h.final_used = 0 THEN HRes(0, 0, <<>>, h, ctx)
    ELSE IF h.buf_len = 0 THEN HRes(0, 0, <<>>, h, ctx)
    ELSE IF ctx.mode = "ECB" THEN
        LET c1 == EVP_Cipher(ctx, h.final_buf, bl)
            buf1 == Memcpy(h.buf, leftover,
                           Sub(c1.out, leftover, bl - leftover), bl - leftover)
            c2 == EVP_Cipher(c1.ctx, buf1, bl)
        IN  HRes(1, bl + leftover, c2.out \o Sub(c1.out, 0, leftover),
                 [h EXCEPT !.buf = buf1], c2.ctx)
    ELSE IF ctx.mode = "CBC" THEN
        LET c1 == EVP_Cipher(ctx, h.final_buf, bl)
            buf1 == Memset(h.buf, leftover, 0, bl - leftover)
            c2 == EVP_Cipher(c1.ctx, buf1, bl)
        IN  HRes(1, bl + leftover, c2.out \o Sub(c1.out, 0, leftover),
                 [h EXCEPT !.buf = buf1], c2.ctx)
    ELSE HRes(0, 0, <<>>, h, ctx)

\* a standard update that stages up to a whole block before it enciphers
EncryptUpdateStagesFullBlock(h, ctx, in, inl) ==
    IF inl > 0 /\ h.buf_len + inl <= ctx.block_size
    THEN HRes(1, 0, <<>>,
              [h EXCEPT !.buf = Memcpy(h.buf, h.buf_len, in, inl),
                        !.buf_len = h.buf_len + inl], ctx)
    ELSE HRes(IF inl = 0 THEN 1 ELSE 0, 0, <<>>, h, ctx)

\* a standard update that leaves buf_len as it was when no bytes remain
EncryptUpdateKeepsStaleCount(h, ctx, in, inl) ==
    LET bl == ctx.block_size IN
    IF inl <= 0 THEN HRes(IF inl = 0 THEN 1 ELSE 0, 0, <<>>, h, ctx)
    ELSE IF h.buf_len = 0 /\ inl % bl = 0 THEN
        LET c == EVP_Cipher(ctx, in, inl)
        IN  HRes(1, inl, c.out, h, c.ctx)
    ELSE IF h.buf_len # 0 /\ h.buf_len + inl < bl THEN
        HRes(1, 0, <<>>,
             [h EXCEPT !.buf = Memcpy(h.buf, h.buf_len, in, inl),
                       !.buf_len = h.buf_len + inl], ctx)
    ELSE
        LET i0 == h.buf_len
            j == IF i0 # 0 THEN bl - i0 ELSE 0
            buf1 == IF i0 # 0 THEN Memcpy(h.buf, i0, in, j) ELSE h.buf
            c1 == IF i0 # 0 THEN EVP_Cipher(ctx, buf1, bl)
                            ELSE [ret |-> 1, out |-> <<>>, ctx |-> ctx]
            in1 == Sub(in, j, Len(in) - j)
            inl1 == inl - j
            i == inl1 % bl
            inl2 == inl1 - i
            c2 == IF inl2 > 0 THEN EVP_Cipher(c1.ctx, in1, inl2)
                              ELSE [ret |-> 1, out |-> <<>>, ctx |-> c1.ctx]
            buf2 == IF i # 0 THEN Memcpy(buf1, 0, Sub(in1, inl2, i), i) ELSE buf1
        IN  HRes(1, Len(c1.out) + Len(c2.out), c1.out \o c2.out,
                 [h EXCEPT !.buf = buf2,
                           !.buf_len = IF i # 0 THEN i ELSE h.buf_len], c2.ctx)

EncryptUpdate(h, ctx, in, inl) ==
    LET bl == ctx.block_size IN
    IF inl <= 0 THEN HRes(IF inl = 0 THEN 1 ELSE 0, 0, <<>>, h, ctx)
    ELSE IF h.buf_len = 0 /\ inl % bl = 0 THEN
        LET c == EVP_Cipher(ctx, in, inl)
        IN  HRes(1, inl, c.out, h, c.ctx)
    ELSE IF h.buf_len # 0 /\ h.buf_len + inl < bl THEN
        HRes(1, 0, <<>>,
             [h EXCEPT !.buf = Memcpy(h.buf, h.buf_len, in, inl),
                       !.buf_len = h.buf_len + inl], ctx)
    ELSE
        LET i0 == h.buf_len
            j == IF i0 # 0 THEN bl - i0 ELSE 0
            buf1 == IF i0 # 0 THEN Memcpy(h.buf, i0, in, j) ELSE h.buf
            c1 == IF i0 # 0 THEN EVP_Cipher(ctx, buf1, bl)
                            ELSE [ret |-> 1, out |-> <<>>, ctx |-> ctx]
            in1 == Sub(in, j, Len(in) - j)
            inl1 == inl - j
            i == inl1 % bl
            inl2 == inl1 - i
            c2 == IF inl2 > 0 THEN EVP_Cipher(c1.ctx, in1, inl2)
                              ELSE [ret |-> 1, out |-> <<>>, ctx |-> c1.ctx]
            buf2 == IF i # 0 THEN Memcpy(buf1, 0, Sub(in1, inl2, i), i) ELSE buf1
        IN  HRes(1, Len(c1.out) + Len(c2.out), c1.out \o c2.out,
                 [h EXCEPT !.buf = buf2, !.buf_len = i], c2.ctx)

\* a decrypt update that delegates to the standard update, which retains no
\* block for the final step
DecryptUpdateStd(h, ctx, in, inl) == EncryptUpdate(h, ctx, in, inl)

DecryptUpdateCTS(h, ctx, in, inl) == EncryptUpdateCTS(h, ctx, in, inl)

\* a CTS final that tests final_used only, not buf_len
DecryptFinalCTSNoLeftoverTest(h, ctx) ==
    LET bl == ctx.block_size
        leftover == h.buf_len
    IN
    IF h.final_used = 0 \/ ctx.mode # "CBC" THEN HRes(0, 0, <<>>, h, ctx)
    ELSE
        LET C_n_minus_2 == Sub(ctx.iv, 0, bl)
            buf1 == Memset(h.buf, leftover, 0, bl - leftover)
            c1 == EVP_Cipher(ctx, h.final_buf, bl)
            tmp2 == XorBuf(XorBuf(c1.out, C_n_minus_2, bl), buf1, bl)
            buf2 == Memcpy(buf1, leftover,
                           Sub(tmp2, leftover, bl - leftover), bl - leftover)
            c2 == EVP_Cipher(c1.ctx, buf2, bl)
            out2 == XorBuf(XorBuf(c2.out, h.final_buf, bl), C_n_minus_2, bl)
        IN  HRes(1, bl + leftover, out2 \o Sub(tmp2, 0, leftover),
                 [h EXCEPT !.buf = buf2], c2.ctx)

\* a CTS final that takes the ciphertext block before the last two to be zero
DecryptFinalCTSZeroChain(h, ctx) ==
    LET bl == ctx.block_size
        leftover == h.buf_len
    IN
    IF h.final_used = 0 \/ h.buf_len = 0 \/ ctx.mode # "CBC"
    THEN HRes(0, 0, <<>>, h, ctx)
    ELSE
        LET C_n_minus_2 == Zeros(bl)
            buf1 == Memset(h.buf, leftover, 0, bl - leftover)
            c1 == EVP_Cipher(ctx, h.final_buf, bl)
            tmp2 == XorBuf(XorBuf(c1.out, C_n_minus_2, bl), buf1, bl)
            buf2 == Memcpy(buf1, leftover,
                           Sub(tmp2, leftover, bl - leftover), bl - leftover)
            c2 == EVP_Cipher(c1.ctx, buf2, bl)
            out2 == XorBuf(XorBuf(c2.out, h.final_buf, bl), C_n_minus_2, bl)
        IN  HRes(1, bl + leftover, out2 \o Sub(tmp2, 0, leftover),
                 [h EXCEPT !.buf = buf2], c2.ctx)

DecryptFinalCTS(h, ctx) ==
    LET bl == ctx.block_size
        leftover == h.buf_len
    IN
    IF h.final_used = 0 THEN HRes(0, 0, <<>>, h, ctx)
    ELSE IF h.buf_len = 0 THEN HRes(0, 0, <<>>, h, ctx)
    ELSE IF ctx.mode = "ECB" THEN
        LET c1 == EVP_Cipher(ctx, h.final_buf, bl)
            buf1 == Memcpy(h.buf, leftover,
                           Sub(c1.out, leftover, bl - leftover), bl - leftover)
            c2 == EVP_Cipher(c1.ctx, buf1, bl)
        IN  HRes(1, bl + leftover, c2.out \o Sub(c1.out, 0, leftover),
                 [h EXCEPT !.buf = buf1], c2.ctx)
    ELSE IF ctx.mode = "CBC" THEN
        LET C_n_minus_2 == Sub(ctx.iv, 0, bl)
            buf1 == Memset(h.buf, leftover, 0, bl - leftover)
            c1 == EVP_Cipher(ctx, h.final_buf, bl)
            tmp1 == XorBuf(c1.out, C_n_minus_2, bl)
            tmp2 == XorBuf(tmp1, buf1, bl)
            buf2 == Memcpy(buf1, leftover,
                           Sub(tmp2, leftover, bl - leftover), bl - leftover)
            c2 == EVP_Cipher(c1.ctx, buf2, bl)
            out1 == XorBuf(c2.out, h.final_buf, bl)
            out2 == XorBuf(out1, C_n_minus_2, bl)
        IN  HRes(1, bl + leftover, out2 \o Sub(tmp2, 0, leftover),
                 [h EXCEPT !.buf = buf2], c2.ctx)
    ELSE HRes(0, 0, <<>>, h, ctx)

\* lines 395-413 of DecryptUpdate: eu is what EncryptUpdate returned, pre the
\* retained block written in front of it
\* a padded update that holds the last block back and never hands a held
\* block on
DecryptUpdateDropsHeld(bl, fix_len, pre, eu) ==
    LET hold == bl > 1 /\ eu.h.buf_len = 0
        outl1 == IF hold THEN eu.outl - bl ELSE eu.outl
        h1 == IF hold
              THEN [eu.h EXCEPT !.final_used = 1,
                                !.final_buf = Memcpy(eu.h.final_buf, 0,
                                                     Sub(eu.out, outl1, bl), bl)]
              ELSE [eu.h EXCEPT !.final_used = 0]
    IN  IF eu.ret = 0 THEN HRes(0, eu.outl, <<>>, eu.h, eu.ctx)
        ELSE HRes(1, outl1, eu.out, h1, eu.ctx)

\* a padded update that holds the last block back and still counts it as
\* emitted
DecryptUpdateCountsHeld(bl, fix_len, pre, eu) ==
    LET hold == bl > 1 /\ eu.h.buf_len = 0
        h1 == IF hold
              THEN [eu.h EXCEPT !.final_used = 1,
                                !.final_buf = Memcpy(eu.h.final_buf, 0,
                                                     Sub(eu.out, eu.outl - bl, bl), bl)]
              ELSE [eu.h EXCEPT !.final_used = 0]
    IN  IF eu.ret = 0 THEN HRes(0, eu.outl, pre, eu.h, eu.ctx)
        ELSE HRes(1, eu.outl + (IF fix_len THEN bl ELSE 0),
                  pre \o eu.out, h1, eu.ctx)

DecryptUpdateRetain(bl, fix_len, pre, eu) ==
    LET hold == bl > 1 /\ eu.h.buf_len = 0
        outl1 == IF hold THEN eu.outl - bl ELSE eu.outl
        h1 == IF hold
              THEN [eu.h EXCEPT !.final_used = 1,
                                !.final_buf = Memcpy(eu.h.final_buf, 0,
                                                     Sub(eu.out, outl1, bl), bl)]
              ELSE [eu.h EXCEPT !.final_used = 0]
    IN  IF eu.ret = 0 THEN HRes(0, eu.outl, pre, eu.h, eu.ctx)
        ELSE HRes(1, outl1 + (IF fix_len THEN bl ELSE 0),
                  pre \o eu.out, h1, eu.ctx)

DecryptUpdate(h, ctx, in, inl) ==
    LET bl == ctx.block_size IN
    IF inl <= 0 THEN HRes(IF inl = 0 THEN 1 ELSE 0, 0, <<>>, h, ctx)
    ELSE IF ~ctx.padding THEN EncryptUpdate(h, ctx, in, inl)
    ELSE
        LET fix_len == h.final_used # 0
            pre == IF fix_len THEN Sub(h.final_buf, 0, bl) ELSE <<>>
        IN  DecryptUpdateRetain(bl, fix_len, pre, EncryptUpdate(h, ctx, in, inl))

\* the final step with the filler check of lines 441-448 enabled
DecryptFinalStrict(h, ctx) ==
    LET bl == ctx.block_size IN
    IF ~ctx.padding THEN
        IF h.buf_len # 0 THEN HRes(0, 0, <<>>, h, ctx)
                          ELSE HRes(1, 0, <<>>, h, ctx)
    ELSE IF bl > 1 THEN
        IF h.buf_len # 0 \/ h.final_used = 0 THEN HRes(0, 0, <<>>, h, ctx)
        ELSE LET n == h.final_buf[bl]
             IN  IF n = 0 \/ n > bl THEN HRes(0, 0, <<>>, h, ctx)
                 ELSE IF \E i \in 0..(n - 1) : h.final_buf[bl - i] # n
                      THEN HRes(0, 0, <<>>, h, ctx)
                 ELSE HRes(1, bl - n, Sub(h.final_buf, 0, bl - n), h, ctx)
    ELSE HRes(1, 0, <<>>, h, ctx)

DecryptFinalRelaxed(h, ctx) ==
    LET bl == ctx.block_size IN
    IF ~ctx.padding THEN
        IF h.buf_len # 0 THEN HRes(0, 0, <<>>, h, ctx)
                          ELSE HRes(1, 0, <<>>, h, ctx)
    ELSE IF bl > 1 THEN
        IF h.buf_len # 0 \/ h.final_used = 0 THEN HRes(0, 0, <<>>, h, ctx)
        ELSE LET n == h.final_buf[bl]
             IN  IF n = 0 \/ n > bl THEN HRes(0, 0, <<>>, h, ctx)
                 ELSE HRes(1, bl - n, Sub(h.final_buf, 0, bl - n), h, ctx)
    ELSE HRes(1, 0, <<>>, h, ctx)

(***************************************************************************)
(* OpenSSL EVP calls the engine makes on its contexts                      *)
(***************************************************************************)
\* EVP_CIPHER_CTX_new / _reset followed by EVP_{En,De}cryptInit_ex(ctx,
\* cipher, NULL, key, NULL): cipher and key installed, IV zero, padding on
EVP_InitKey(enc, key) ==
    [alloc |-> TRUE, key |-> key, iv |-> Zeros(AES_BLOCK_SIZE), encrypt |-> enc,
     mode |-> "CBC", padding |-> TRUE, block_size |-> AES_BLOCK_SIZE,
     iv_len |-> AES_BLOCK_SIZE, buf |-> Zeros(EVP_MAX_BLOCK_LENGTH), buf_len |-> 0]

\* EVP_{En,De}cryptInit_ex(ctx, NULL, NULL, NULL, iv): the per-packet re-init,
\* key kept, IV replaced, the context's own partial block dropped
EVP_InitIV(ctx, iv) ==
    [ctx EXCEPT !.iv = Sub(iv, 0, ctx.iv_len), !.buf_len = 0]

EVP_CIPHER_CTX_set_padding(ctx, pad) == [ctx EXCEPT !.padding = pad]

\* EVP_EncryptUpdate: the block accounting H235CryptoHelper::EncryptUpdate
\* was copied from, on the context's own buffer
CtxUpdated(r) ==
    [ret |-> r.ret, outl |-> r.outl, out |-> r.out,
     ctx |-> [r.ctx EXCEPT !.buf = r.h.buf, !.buf_len = r.h.buf_len]]

EVP_EncryptUpdate(ctx, in, inl) ==
    CtxUpdated(EncryptUpdate([buf |-> ctx.buf, buf_len |-> ctx.buf_len,
                              final_buf |-> <<>>, final_used |-> 0],
                             ctx, in, inl))

\* EVP_EncryptFinal_ex: PKCS#7 padding of the partial block when padding is on
EVP_EncryptFinal_ex(ctx) ==
    LET b == ctx.block_size
        bl == ctx.buf_len
    IN  IF ~ctx.padding THEN
            [ret |-> IF bl # 0 THEN 0 ELSE 1, outl |-> 0, out |-> <<>>, ctx |-> ctx]
        ELSE LET padded == Memset(ctx.buf, bl, b - bl, b - bl)
                 c == EVP_Cipher([ctx EXCEPT !.buf = padded], padded, b)
             IN  [ret |-> 1, outl |-> b, out |-> c.out, ctx |-> c.ctx]

(***************************************************************************)
(* H235CryptoEngine                                                        *)
(***************************************************************************)
NULL == <<>>

\* PBYTEArray::SetSize(n): the first n bytes, zero-filled when it grows
Resize(a, n) == [i \in 1..n |-> IF i <= Len(a) THEN a[i] ELSE 0]

\* H235CryptoEngine(algorithmOID)
NewEngine(oid) ==
    [m_algorithmOID |-> oid, m_initialised |-> FALSE, m_operationCnt |-> 0,
     m_encryptCtx |-> NullCtx, m_decryptCtx |-> NullCtx,
     m_encryptHelper |-> NewHelper, m_decryptHelper |-> NewHelper,
     m_enc_blockSize |-> 0, m_enc_ivLength |-> 0,
     m_dec_blockSize |-> 0, m_dec_ivLength |-> 0,
     m_iv |-> Zeros(EVP_MAX_IV_LENGTH)]

\* the KeyLen(oid) bytes EVP_*Init_ex reads at key.GetPointer(): the key's
\* own bytes, then whatever lies behind a key that is too short (fill)
KeyBytesRead(oid, key, fill) ==
    [i \in 1..KeyLen(oid) |-> IF i <= Len(key) THEN key[i] ELSE fill]

\* SetKey(key); no allocation failure
SetKey(e, key, fill) ==
    IF ~Supported(e.m_algorithmOID) THEN e
    ELSE LET k == KeyBytesRead(e.m_algorithmOID, key, fill)
             ec == EVP_InitKey(TRUE, k)
             dc == EVP_InitKey(FALSE, k)
         IN  [e EXCEPT !.m_initialised = TRUE,
                       !.m_encryptCtx = ec,
                       !.m_enc_blockSize = ec.block_size,
                       !.m_enc_ivLength = ec.iv_len,
                       !.m_encryptHelper = Reset(e.m_encryptHelper),
                       !.m_decryptCtx = dc,
                       !.m_dec_blockSize = dc.block_size,
                       !.m_dec_ivLength = dc.iv_len,
                       !.m_decryptHelper = Reset(e.m_decryptHelper),
                       !.m_operationCnt = 0]

\* H235CryptoEngine(algorithmOID, key)
NewEngineWithKey(oid, key, fill) == SetKey(NewEngine(oid), key, fill)

RECURSIVE SetIVLoop(_, _, _, _)
SetIVLoop(iv, ivSequence, i, n) ==
    IF i >= n THEN iv
    ELSE SetIVLoop(Memcpy(iv, i * IV_SEQUENCE_LEN, ivSequence, IV_SEQUENCE_LEN),
                   ivSequence, i + 1, n)

\* a tiling that rounds up to whole copies of the seed
SetIVWholeCopies(iv, ivSequence, ivLen) ==
    IF ivSequence # NULL
    THEN SetIVLoop(iv, ivSequence, 0,
                   (ivLen + IV_SEQUENCE_LEN - 1) \div IV_SEQUENCE_LEN)
    ELSE Memset(iv, 0, 0, ivLen)

\* an IV that ignores the seed
SetIVIgnoresSeed(iv, ivSequence, ivLen) == Memset(iv, 0, 0, ivLen)

SetIV(iv, ivSequence, ivLen) ==
    IF ivSequence # NULL THEN
        LET full == SetIVLoop(iv, ivSequence, 0, ivLen \div IV_SEQUENCE_LEN)
            r == ivLen % IV_SEQUENCE_LEN
        IN  IF r > 0 THEN Memcpy(full, ivLen - r, ivSequence, r) ELSE full
    ELSE Memset(iv, 0, 0, ivLen)

\* the padding policy of the disabled line 578: pad short payloads only
EncryptPaddingShortOnly(size, blockSize) == size < blockSize

\* the padding policy of Encrypt / EncryptInPlace
EncryptPadding(size, blockSize) == size % blockSize > 0

\* the shared body of Encrypt and EncryptInPlace after the IV is built:
\* [ctx, h, pad, cts, upd, fin]
EncryptStepsDone(h1, pad, cts, upd, fin) ==
    [ctx |-> fin.ctx, h |-> IF cts THEN fin.h ELSE h1,
     pad |-> pad, cts |-> cts,
     upd |-> [ret |-> upd.ret, outl |-> upd.outl, out |-> upd.out],
     fin |-> [ret |-> fin.ret, outl |-> fin.outl, out |-> fin.out]]

\* the final call that follows the update upd
EncryptFinalStep(h1, pad, cts, upd) ==
    EncryptStepsDone(h1, pad, cts, upd,
                     IF cts THEN EncryptFinalCTS(upd.h, upd.ctx)
                            ELSE EVP_EncryptFinal_ex(upd.ctx))

EncryptSteps(ctx0, h0, iv, in, inl) ==
    LET bs == ctx0.block_size
        pad == EncryptPadding(inl, bs)
        ctx1 == EVP_CIPHER_CTX_set_padding(EVP_InitIV(ctx0, iv), pad)
        h1 == Reset(h0)
        cts == ~pad /\ (inl % bs > 0)
    IN  EncryptFinalStep(h1, pad, cts,
                         IF cts THEN EncryptUpdateCTS(h1, ctx1, in, inl)
                                ELSE EVP_EncryptUpdate(ctx1, in, inl))

\* lines 603-605 of Encrypt: s is what the update / final pair returned
EncryptReturn(e, size, s) ==
    LET ciphertext == Memcpy(Memcpy(Zeros(size + e.m_enc_blockSize), 0,
                                    s.upd.out, Len(s.upd.out)),
                             s.upd.outl, s.fin.out, Len(s.fin.out))
    IN  [e |-> [e EXCEPT !.m_encryptCtx = s.ctx, !.m_encryptHelper = s.h,
                         !.m_operationCnt = e.m_operationCnt + 1],
         out |-> Resize(ciphertext, s.upd.outl + s.fin.outl),
         pad |-> s.pad, cts |-> s.cts,
         written |-> Max(Len(s.upd.out), s.upd.outl + Len(s.fin.out))]

\* Encrypt(data, ivSequence, rtpPadding): [e, out, pad, cts, written]
Encrypt(e, data, ivSequence, rtpPadding) ==
    IF ~e.m_initialised
    THEN [e |-> e, out |-> <<>>, pad |-> rtpPadding, cts |-> FALSE, written |-> 0]
    ELSE EncryptReturn(e, Len(data),
             EncryptSteps(e.m_encryptCtx, e.m_encryptHelper,
                          SetIV(Zeros(EVP_MAX_IV_LENGTH), ivSequence,
                                e.m_enc_ivLength),
                          data, Len(data)))

\* an in-place return that reports the update's byte count alone
EncryptInPlaceReturnDropsFinal(e, iv, s) ==
    LET outData == Memcpy(Memcpy(<<>>, 0, s.upd.out, Len(s.upd.out)),
                          s.upd.outl, s.fin.out, Len(s.fin.out))
    IN  [e |-> [e EXCEPT !.m_encryptCtx = s.ctx, !.m_encryptHelper = s.h,
                         !.m_iv = iv],
         n |-> s.upd.outl,
         out |-> outData, pad |-> s.pad, cts |-> s.cts,
         written |-> Len(outData)]

\* line 647 of EncryptInPlace: s is what the update / final pair returned
EncryptInPlaceReturn(e, iv, s) ==
    LET outData == Memcpy(Memcpy(<<>>, 0, s.upd.out, Len(s.upd.out)),
                          s.upd.outl, s.fin.out, Len(s.fin.out))
    IN  [e |-> [e EXCEPT !.m_encryptCtx = s.ctx, !.m_encryptHelper = s.h,
                         !.m_iv = iv],
         n |-> s.upd.outl + s.fin.outl,
         out |-> outData, pad |-> s.pad, cts |-> s.cts,
         written |-> Len(outData)]

\* EncryptInPlace(inData, inLength, outData, ivSequence, rtpPadding):
\* [e, n, out, pad, cts, written]; out is what was written to outData
EncryptInPlace(e, inData, inLength, ivSequence, rtpPadding) ==
    IF ~e.m_initialised
    THEN [e |-> e, n |-> inLength, out |-> Zeros(inLength), pad |-> rtpPadding,
          cts |-> FALSE, written |-> inLength]
    ELSE LET iv == SetIV(e.m_iv, ivSequence, e.m_enc_ivLength)
         IN  EncryptInPlaceReturn(e, iv,
                 EncryptSteps(e.m_encryptCtx, e.m_encryptHelper, iv,
                              inData, inLength))

\* a dispatch that sends every unpadded payload to the CTS pair
DecryptUnpaddedCTS(rtpPadding, size, blockSize) == ~rtpPadding

\* the branch test of Decrypt / DecryptInPlace
DecryptUsesCTS(rtpPadding, size, blockSize) == ~rtpPadding /\ size % blockSize > 0

\* the shared body of Decrypt and DecryptInPlace after the IV is built;
\* stopOnFail: DecryptInPlace returns at the first failing step
DecryptStepsDone(cts, upd, fin) ==
    [ctx |-> fin.ctx, h |-> fin.h, cts |-> cts, hfin |-> upd.h,
     upd |-> [ret |-> upd.ret, outl |-> upd.outl, out |-> upd.out],
     fin |-> [ret |-> fin.ret, outl |-> fin.outl, out |-> fin.out]]

\* the final call that follows the update upd; DecryptInPlace (stopOnFail)
\* returns before it when the update failed
DecryptFinalStep(cts, stopOnFail, upd) ==
    DecryptStepsDone(cts, upd,
        IF stopOnFail /\ upd.ret = 0 THEN HRes(0, 0, <<>>, upd.h, upd.ctx)
        ELSE IF cts THEN DecryptFinalCTS(upd.h, upd.ctx)
                    ELSE DecryptFinalRelaxed(upd.h, upd.ctx))

DecryptSteps(ctx0, h0, iv, in, inl, rtpPadding, stopOnFail) ==
    LET bs == ctx0.block_size
        ctx1 == EVP_CIPHER_CTX_set_padding(EVP_InitIV(ctx0, iv), rtpPadding)
        h1 == Reset(h0)
        cts == DecryptUsesCTS(rtpPadding, inl, bs)
    IN  DecryptFinalStep(cts, stopOnFail,
                         IF cts THEN DecryptUpdateCTS(h1, ctx1, in, inl)
                                ELSE DecryptUpdate(h1, ctx1, in, inl))

\* lines 686-689 of Decrypt: s is what the update / final pair returned
DecryptReturn(e, size, s) ==
    LET plaintext == Memcpy(Memcpy(Zeros(size), 0, s.upd.out, Len(s.upd.out)),
                            s.upd.outl, s.fin.out, Len(s.fin.out))
    IN  [e |-> [e EXCEPT !.m_decryptCtx = s.ctx, !.m_decryptHelper = s.h,
                         !.m_operationCnt = e.m_operationCnt + 1],
         out |-> Resize(plaintext, s.upd.outl + s.fin.outl),
         pad |-> FALSE, cts |-> s.cts, upd |-> s.upd, fin |-> s.fin,
         hfin |-> s.hfin,
         written |-> Max(Len(s.upd.out), s.upd.outl + Len(s.fin.out))]

\* Decrypt(data, ivSequence, rtpPadding): [e, out, pad, cts, upd, fin, hfin, written]
Decrypt(e, data, ivSequence, rtpPadding) ==
    IF ~e.m_initialised
    THEN [e |-> e, out |-> <<>>, pad |-> rtpPadding, cts |-> FALSE,
          upd |-> [ret |-> 1, outl |-> 0, out |-> <<>>],
          fin |-> [ret |-> 1, outl |-> 0, out |-> <<>>],
          hfin |-> e.m_decryptHelper, written |-> 0]
    ELSE DecryptReturn(e, Len(data),
             DecryptSteps(e.m_decryptCtx, e.m_decryptHelper,
                          SetIV(Zeros(EVP_MAX_IV_LENGTH), ivSequence,
                                e.m_dec_ivLength),
                          data, Len(data), rtpPadding, FALSE))

\* what DecryptInPlace leaves behind: s is what the update / final pair
\* returned, n the byte count and pad the caller's flag on return
DecryptInPlaceDone(e, iv, s, n, pad) ==
    LET outData == Memcpy(Memcpy(<<>>, 0, s.upd.out, Len(s.upd.out)),
                          s.upd.outl, s.fin.out, Len(s.fin.out))
    IN  [e |-> [e EXCEPT !.m_decryptCtx = s.ctx, !.m_decryptHelper = s.h,
                         !.m_iv = iv],
         n |-> n, out |-> outData, pad |-> pad,
         cts |-> s.cts, upd |-> s.upd, fin |-> s.fin, hfin |-> s.hfin,
         written |-> Len(outData)]

\* lines 709-726 of DecryptInPlace: 0 as soon as a step fails, before the
\* flag is cleared
DecryptInPlaceReturn(e, iv, rtpPadding, s) ==
    IF s.upd.ret # 0 /\ s.fin.ret # 0
    THEN DecryptInPlaceDone(e, iv, s, s.upd.outl + s.fin.outl, FALSE)
    ELSE DecryptInPlaceDone(e, iv, s, 0, rtpPadding)

\* an in-place decrypt that reports its byte count whether or not a step failed
DecryptInPlaceKeepsCount(e, inData, inLength, ivSequence, rtpPadding) ==
    LET iv == SetIV(e.m_iv, ivSequence, e.m_dec_ivLength)
        s == DecryptSteps(e.m_decryptCtx, e.m_decryptHelper, iv, inData, inLength,
                          rtpPadding, FALSE)
    IN  DecryptInPlaceDone(e, iv, s, s.upd.outl + s.fin.outl, FALSE)

\* DecryptInPlace(inData, inLength, outData, ivSequence, rtpPadding) on an
\* engine whose decrypt context exists: [e, n, out, pad, cts, upd, fin, hfin,
\* written].  There is no m_initialised test in this method.
DecryptInPlace(e, inData, inLength, ivSequence, rtpPadding) ==
    LET iv == SetIV(e.m_iv, ivSequence, e.m_dec_ivLength)
    IN  DecryptInPlaceReturn(e, iv, rtpPadding,
            DecryptSteps(e.m_decryptCtx, e.m_decryptHelper, iv, inData, inLength,
                         rtpPadding, TRUE))

\* RAND_bytes(key.GetPointer(), n): n bytes of the random stream r
RandBytes(n, r) == [i \in 1..n |-> (r + 13 * i) % 256]

\* the key size GenerateRandomKey(algorithmOID) chooses on engine e
RandomKeySize(e, algorithmOID) ==
    IF algorithmOID = ID_AES128 THEN 16
    ELSE IF H323_H235_AES256 /\ e.m_algorithmOID = ID_AES192 THEN 24
    ELSE IF H323_H235_AES256 /\ e.m_algorithmOID = ID_AES256 THEN 32
    ELSE 0

\* GenerateRandomKey(algorithmOID): the key returned
GenerateRandomKeyFor(e, algorithmOID, r) ==
    RandBytes(RandomKeySize(e, algorithmOID), r)

\* GenerateRandomKey(): [e, key]
GenerateRandomKey(e, r, fill) ==
    LET result == GenerateRandomKeyFor(e, e.m_algorithmOID, r)
    IN  [e |-> SetKey(e, result, fill), key |-> result]

\* H235Session::ReadFrameInPlace(frame) as far as it touches the media engine
\* ctxt (m_context): [e, ret, size, padding, payload, dec]
FrameRead(r) ==
    [e |-> r.e, ret |-> TRUE, size |-> r.n, padding |-> r.pad,
     payload |-> Resize(r.out, r.n), dec |-> r]

ReadFrameInPlace(ctxt, frame) ==
    FrameRead(DecryptInPlace(ctxt, frame.payload, Len(frame.payload),
                             frame.seq, frame.padding))

(***************************************************************************)
(* H235Session                                                             *)
(***************************************************************************)
\* H235Session(caps, oidAlgorithm); dh is the shared secret that
\* m_dh.ComputeSessionKey yields
NewSession(oid, dh) ==
    [m_dh |-> dh, m_context |-> NewEngine(oid), m_dhcontext |-> NewEngine(oid),
     m_isInitialised |-> FALSE, m_isMaster |-> FALSE, m_crytoMasterKey |-> <<>>,
     m_padding |-> FALSE,
     m_dhkeyLen |-> IF oid = ID_AES128 THEN 16
                    ELSE IF H323_H235_AES256 /\ oid = ID_AES192 THEN 24
                    ELSE IF H323_H235_AES256 /\ oid = ID_AES256 THEN 32
                    ELSE 16]

\* the trailing n bytes of the DH secret; fill is what lies in front of a
\* secret shorter than n
ShortSessionKey(dh, n, fill) ==
    [i \in 1..n |-> IF Len(dh) - n + i >= 1 THEN dh[Len(dh) - n + i] ELSE fill]

\* a CreateSession that generates a media key on either side
CreateSessionAlwaysGenerates(s, isMaster, r) ==
    IF s.m_isInitialised THEN [s |-> s, ret |-> FALSE]
    ELSE LET g == GenerateRandomKey(s.m_context, r, 0)
         IN  [s |-> [s EXCEPT !.m_isMaster = isMaster,
                              !.m_dhcontext = SetKey(s.m_dhcontext,
                                  ShortSessionKey(s.m_dh, s.m_dhkeyLen, 0), 0),
                              !.m_context = g.e,
                              !.m_crytoMasterKey = g.key,
                              !.m_isInitialised = TRUE],
              ret |-> TRUE]

\* a CreateSession without the test of m_isInitialised
CreateSessionUnguarded(s, isMaster, r) ==
    LET shortSessionKey == ShortSessionKey(s.m_dh, s.m_dhkeyLen, 0)
        g == GenerateRandomKey(s.m_context, r, 0)
    IN  [s |-> [s EXCEPT !.m_isMaster = isMaster,
                         !.m_dhcontext = SetKey(s.m_dhcontext, shortSessionKey, 0),
                         !.m_context = IF isMaster THEN g.e ELSE @,
                         !.m_crytoMasterKey = IF isMaster THEN g.key ELSE @,
                         !.m_isInitialised = TRUE],
         ret |-> TRUE]

\* CreateSession(isMaster): [s, ret]
CreateSession(s, isMaster, r) ==
    IF s.m_isInitialised THEN [s |-> s, ret |-> FALSE]
    ELSE LET shortSessionKey == ShortSessionKey(s.m_dh, s.m_dhkeyLen, 0)
             g == GenerateRandomKey(s.m_context, r, 0)
         IN  [s |-> [s EXCEPT !.m_isMaster = isMaster,
                              !.m_dhcontext = SetKey(s.m_dhcontext, shortSessionKey, 0),
                              !.m_context = IF isMaster THEN g.e ELSE @,
                              !.m_crytoMasterKey = IF isMaster THEN g.key ELSE @,
                              !.m_isInitialised = TRUE],
              ret |-> TRUE]

\* EncodeMediaKey(key): [s, key]
EncodeMediaKey(s) ==
    LET r == Encrypt(s.m_dhcontext, s.m_crytoMasterKey, NULL, FALSE)
    IN  [s |-> [s EXCEPT !.m_dhcontext = r.e], key |-> r.out]

\* a DecodeMediaKey without the test of m_isInitialised
DecodeMediaKeyUnguarded(s, key, fill) ==
    LET d == Decrypt(s.m_dhcontext, key, NULL, FALSE)
    IN  [s |-> [s EXCEPT !.m_dhcontext = d.e,
                         !.m_crytoMasterKey = d.out,
                         !.m_context = SetKey(s.m_context, d.out, fill)],
         ret |-> TRUE]

\* DecodeMediaKey(key): [s, ret]; fill is what lies behind a decoded key
\* shorter than the cipher's key
DecodeMediaKey(s, key, fill) ==
    IF ~s.m_isInitialised THEN [s |-> s, ret |-> FALSE]
    ELSE LET d == Decrypt(s.m_dhcontext, key, NULL, FALSE)
         IN  [s |-> [s EXCEPT !.m_dhcontext = d.e,
                              !.m_crytoMasterKey = d.out,
                              !.m_context = SetKey(s.m_context, d.out, fill)],
              ret |-> TRUE]

IsInitialised(s) == s.m_isInitialised

\* lines 849-853 of ReadFrame / 874-878 of WriteFrame: r is what the engine
\* returned; the frame gets its size, payload and padding bit
FrameDone(s, r) ==
    [s |-> [s EXCEPT !.m_context = r.e], ret |-> TRUE,
     size |-> Len(r.out), padding |-> r.pad, payload |-> r.out]

\* ReadFrame(rtpTimestamp, frame): [s, ret, size, padding, payload]
ReadFrame(s, frame) ==
    FrameDone(s, Decrypt(s.m_context, frame.payload, frame.seq, frame.padding))

\* WriteFrame(frame): [s, ret, size, padding, payload]
WriteFrame(s, frame) ==
    FrameDone(s, Encrypt(s.m_context, frame.payload, frame.seq, frame.padding))

\* an IsActive that reports the flag as it is
IsActiveWhenInitialised(s) == IsInitialised(s)

IsActive(s) == ~IsInitialised(s)

(***************************************************************************)
(* State                                                                   *)
(***************************************************************************)
VARIABLES
    eng,    \* the H235CryptoEngine under test
    wire,   \* the packet last produced by Encrypt / EncryptInPlace
    last,   \* the last call: its arguments and results
    calls,  \* number of calls made so far in this run
    sess,   \* the two H235Session objects of a call, one per endpoint
    keymsg, \* the encoded media key last produced by EncodeMediaKey
    thr     \* the threads that call the engine: where each one is in its call

vars == <<eng, wire, last, calls, sess, keymsg, thr>>

(***************************************************************************)
(* Bounds and inputs                                                       *)
(***************************************************************************)
\* packet calls explored in one run
MaxCalls == 2
\* longest payload of the exhaustive per-length checks
MaxLen == 40

\* a plaintext of len bytes whose last byte is tail
Plain(len, tail) ==
    [i \in 1..len |-> IF i = len THEN tail ELSE (7 * i + 1) % 256]

\* payloads the callers hand to Encrypt: empty, short, one block whose last
\* byte is a valid / a too large padding count, one block and a bit, more
\* than two blocks
Plains ==
    {Plain(0, 0), Plain(4, 68), Plain(16, 5), Plain(16, 17),
     Plain(17, 170), Plain(33, 9)}

\* a payload as a peer sends it (not produced by this engine)
PeerPayload(len) == [i \in 1..len |-> (11 * i + 3) % 256]
PeerLens == {5, 20, 37}

Seed1 == <<16, 17, 18, 19, 20, 21>>
Seeds == {NULL, Seed1}

SupportedOIDs == {ID_AES128, ID_AES192, ID_AES256}
AllOIDs == SupportedOIDs \cup {ID_UNKNOWN}

\* arguments of Encrypt / EncryptInPlace: <<data, ivSequence, rtpPadding>>
EncInputs ==
    (Plains \X Seeds \X {FALSE}) \cup (Plains \X {Seed1} \X {TRUE})

\* what can arrive for decryption: the packet on the wire or a peer's payload
Received == {wire.data} \cup {PeerPayload(l) : l \in PeerLens}

\* arguments of Decrypt / DecryptInPlace: <<data, ivSequence, rtpPadding>>
DecInputs ==
    ({wire.data} \X Seeds \X BOOLEAN)
        \cup ({PeerPayload(l) : l \in PeerLens} \X {Seed1} \X BOOLEAN)

\* RTP frames handed to ReadFrameInPlace (a frame always carries a sequence)
Frames ==
    {[payload |-> d, seq |-> Seed1, padding |-> p] :
        d \in ({wire.data} \cup {PeerPayload(5)}), p \in BOOLEAN}

Sides == {"m", "s"}
\* the DH shared secret of the call
DhSecret == [i \in 1..40 |-> (17 * i + 5) % 256]
NoSessions == [side \in Sides |-> NewSession(ID_UNKNOWN, <<>>)]
NoKeyMsg == [data |-> <<>>, from |-> "", key |-> <<>>, sent |-> FALSE]

\* a packet: ciphertext, seed, padding flag, the plaintext it was made from
NoPacket == [data |-> <<>>, seq |-> NULL, pad |-> FALSE, pt |-> <<>>, sent |-> FALSE]
\* the packet on the wire, and the one produced before it
NoWire ==
    [data |-> <<>>, seq |-> NULL, pad |-> FALSE, pt |-> <<>>, sent |-> FALSE,
     before |-> NoPacket]
\* the packet w without its predecessor
Packet(w) ==
    [data |-> w.data, seq |-> w.seq, pad |-> w.pad, pt |-> w.pt, sent |-> w.sent]

\* a single owner that is not inside any call
NoThreads ==
    [mode |-> "single", k |-> "idle", p |-> "idle", key |-> <<>>, keyed |-> FALSE]

NoOp ==
    [op |-> "none", init |-> FALSE, in |-> <<>>, seq |-> NULL, padIn |-> FALSE,
     out |-> <<>>, n |-> 0, padOut |-> FALSE, cts |-> FALSE,
     upd |-> [ret |-> 1, outl |-> 0, out |-> <<>>],
     fin |-> [ret |-> 1, outl |-> 0, out |-> <<>>],
     hin |-> NewHelper, hfin |-> NewHelper, written |-> 0, ret |-> TRUE,
     inl |-> 0, ivIn |-> <<>>,
     key |-> <<>>, oid |-> "",
     ivLen |-> 0, keySet |-> FALSE, crash |-> FALSE, side |-> ""]

(***************************************************************************)
(* Packet operations on one engine                                         *)
(***************************************************************************)
EncryptAct(Ins, cap) ==
    /\ calls < cap /\ ~last.crash
    /\ \E a \in Ins :
         \E r \in {Encrypt(eng, a[1], a[2], a[3])} :
             /\ eng' = r.e
             /\ wire' = [data |-> r.out, seq |-> a[2], pad |-> r.pad,
                         pt |-> a[1], sent |-> TRUE,
                         before |-> Packet(wire)]
             /\ last' = [NoOp EXCEPT !.op = "Encrypt", !.key = last.key,
                                     !.keySet = last.keySet, !.init = eng.m_initialised,
                                     !.in = a[1], !.seq = a[2], !.padIn = a[3],
                                     !.out = r.out, !.n = Len(r.out),
                                     !.padOut = r.pad, !.cts = r.cts,
                                     !.written = r.written]
    /\ calls' = calls + 1
    /\ UNCHANGED <<sess, keymsg, thr>>

EncryptInPlaceAct(Ins, cap) ==
    /\ calls < cap /\ ~last.crash
    /\ \E a \in Ins :
         \E r \in {EncryptInPlace(eng, a[1], Len(a[1]), a[2], a[3])} :
             /\ eng' = r.e
             /\ wire' = [data |-> Resize(r.out, r.n), seq |-> a[2], pad |-> r.pad,
                         pt |-> a[1], sent |-> TRUE,
                         before |-> Packet(wire)]
             /\ last' = [NoOp EXCEPT !.op = "EncryptInPlace", !.key = last.key,
                                     !.keySet = last.keySet,
                                     !.init = eng.m_initialised,
                                     !.in = a[1], !.seq = a[2], !.padIn = a[3],
                                     !.out = Resize(r.out, r.n), !.n = r.n,
                                     !.padOut = r.pad, !.cts = r.cts,
                                     !.written = r.written]
    /\ calls' = calls + 1
    /\ UNCHANGED <<sess, keymsg, thr>>

DecryptAct(Ins, cap) ==
    /\ calls < cap /\ ~last.crash
    /\ \E a \in Ins :
         \E r \in {Decrypt(eng, a[1], a[2], a[3])} :
             /\ eng' = r.e
             /\ last' = [NoOp EXCEPT !.op = "Decrypt", !.key = last.key,
                                     !.hin = eng.m_decryptHelper,
                                     !.keySet = last.keySet, !.init = eng.m_initialised,
                                     !.in = a[1], !.seq = a[2], !.padIn = a[3],
                                     !.out = r.out, !.n = Len(r.out),
                                     !.padOut = r.pad, !.cts = r.cts,
                                     !.upd = r.upd, !.fin = r.fin,
                                     !.hfin = r.hfin, !.written = r.written]
    /\ calls' = calls + 1
    /\ UNCHANGED <<wire, sess, keymsg, thr>>

\* DecryptInPlace on an engine that has a decrypt context
DecryptInPlaceAct(Ins, cap) ==
    /\ calls < cap /\ ~last.crash
    /\ eng.m_decryptCtx.alloc
    /\ \E a \in Ins :
         \E r \in {DecryptInPlace(eng, a[1], Len(a[1]), a[2], a[3])} :
             /\ eng' = r.e
             /\ last' = [NoOp EXCEPT !.op = "DecryptInPlace", !.key = last.key,
                                     !.hin = eng.m_decryptHelper,
                                     !.keySet = last.keySet,
                                     !.init = eng.m_initialised,
                                     !.in = a[1], !.seq = a[2], !.padIn = a[3],
                                     !.out = Resize(r.out, r.n), !.n = r.n,
                                     !.padOut = r.pad, !.cts = r.cts,
                                     !.upd = r.upd, !.fin = r.fin,
                                     !.hfin = r.hfin, !.written = r.written]
    /\ calls' = calls + 1
    /\ UNCHANGED <<wire, sess, keymsg, thr>>

\* an engine built by H235CryptoEngine(oid, key) for every supported cipher
Init ==
    /\ eng \in {NewEngineWithKey(oid, RandBytes(KeyLen(oid), 0), 0) :
                    oid \in SupportedOIDs}
    /\ wire = NoWire
    /\ last = NoOp
    /\ calls = 0
    /\ sess = NoSessions
    /\ keymsg = NoKeyMsg
    /\ thr = NoThreads

DoEncrypt == EncryptAct(EncInputs, MaxCalls)

DoEncryptInPlace == EncryptInPlaceAct(EncInputs, MaxCalls)

DoDecrypt == DecryptAct(DecInputs, MaxCalls)

DoDecryptInPlace == DecryptInPlaceAct(DecInputs, MaxCalls)

\* the media engine driven through H235Session::ReadFrameInPlace
DoReadFrameInPlace ==
    /\ calls < MaxCalls
    /\ eng.m_decryptCtx.alloc
    /\ \E f \in Frames :
         \E r \in {ReadFrameInPlace(eng, f)} :
             /\ eng' = r.e
             /\ last' = [NoOp EXCEPT !.op = "ReadFrameInPlace",
                                     !.hin = eng.m_decryptHelper,
                                     !.init = eng.m_initialised,
                                     !.in = f.payload, !.seq = f.seq,
                                     !.padIn = f.padding,
                                     !.out = r.payload, !.n = r.size,
                                     !.padOut = r.padding, !.cts = r.dec.cts,
                                     !.upd = r.dec.upd, !.fin = r.dec.fin,
                                     !.hfin = r.dec.hfin,
                                     !.written = r.dec.written, !.ret = r.ret]
    /\ calls' = calls + 1
    /\ UNCHANGED <<wire, sess, keymsg, thr>>

Next ==
    \/ DoEncrypt
    \/ DoEncryptInPlace
    \/ DoDecrypt
    \/ DoDecryptInPlace
    \/ DoReadFrameInPlace

Spec == Init /\ [][Next]_vars

(***************************************************************************)
(* Key management: engines built by H235CryptoEngine(oid), keyed later     *)
(***************************************************************************)
\* a caller's key of n bytes
KeyOfLen(n) == [i \in 1..n |-> (40 + i) % 256]
KeyLens == {0, 8, 16, 24, 32}
\* what lies in memory behind a key buffer that is shorter than the cipher's key
Fills == {0, 171}
\* arguments of SetKey: <<key, bytes behind it>>
KeyInputs ==
    {<<KeyOfLen(n), 0>> : n \in KeyLens} \cup {<<KeyOfLen(8), f>> : f \in Fills}
\* calls explored in one run of the key management
MaxKeyCalls == 3
\* the random stream of RAND_bytes
Rands == {1}

KeyEncInputs == {Plain(4, 68)} \X {Seed1} \X BOOLEAN
KeyDecInputs == {<<wire.data, Seed1, wire.pad>>, <<PeerPayload(20), Seed1, FALSE>>}

InitKey ==
    /\ eng \in {NewEngine(oid) : oid \in AllOIDs}
    /\ wire = NoWire
    /\ last = NoOp
    /\ calls = 0
    /\ sess = NoSessions
    /\ keymsg = NoKeyMsg
    /\ thr = NoThreads

DoSetKey ==
    /\ calls < MaxKeyCalls /\ ~last.crash
    /\ \E k \in KeyInputs :
         /\ eng' = SetKey(eng, k[1], k[2])
         /\ last' = [NoOp EXCEPT !.op = "SetKey", !.init = eng.m_initialised,
                                 !.key = k[1], !.keySet = TRUE]
    /\ calls' = calls + 1
    /\ UNCHANGED <<wire, sess, keymsg, thr>>

DoGenerateRandomKey ==
    /\ calls < MaxKeyCalls /\ ~last.crash
    /\ \E r \in Rands :
         \E g \in {GenerateRandomKey(eng, r, 0)} :
            /\ eng' = g.e
            /\ last' = [NoOp EXCEPT !.op = "GenerateRandomKey",
                                    !.init = eng.m_initialised,
                                    !.key = g.key, !.out = g.key,
                                    !.keySet = TRUE]
    /\ calls' = calls + 1
    /\ UNCHANGED <<wire, sess, keymsg, thr>>

DoGenerateRandomKeyFor ==
    /\ ~last.crash
    /\ \E r \in Rands, oid \in AllOIDs :
         last' = [NoOp EXCEPT !.op = "GenerateRandomKey(oid)",
                              !.init = eng.m_initialised, !.oid = oid,
                              !.out = GenerateRandomKeyFor(eng, oid, r),
                              !.key = last.key, !.keySet = last.keySet]
    /\ UNCHANGED <<eng, wire, calls, sess, keymsg, thr>>

KeyEncrypt == EncryptAct(KeyEncInputs, MaxKeyCalls)

KeyEncryptInPlace == EncryptInPlaceAct(KeyEncInputs, MaxKeyCalls)

KeyDecrypt == DecryptAct(KeyDecInputs, MaxKeyCalls)

KeyDecryptInPlace == DecryptInPlaceAct(KeyDecInputs, MaxKeyCalls)

\* DecryptInPlace on an engine without a decrypt context: lines 700-705 hand
\* the null m_decryptCtx to OpenSSL and compute inLength % m_dec_blockSize with
\* m_dec_blockSize = 0.  The behaviour is undefined: the call may end the
\* process, or come back with either byte count and either flag.
DecryptInPlaceNoCtx ==
    /\ calls < MaxKeyCalls /\ ~last.crash
    /\ ~eng.m_decryptCtx.alloc
    /\ \E a \in KeyDecInputs, crash \in BOOLEAN, pad \in BOOLEAN :
         \E n \in {0, Len(a[1])} :
            last' = [NoOp EXCEPT !.op = "DecryptInPlace",
                                 !.init = eng.m_initialised,
                                 !.in = a[1], !.seq = a[2], !.padIn = a[3],
                                 !.n = IF crash THEN 0 ELSE n,
                                 !.padOut = IF crash THEN a[3] ELSE pad,
                                 !.crash = crash,
                                 !.key = last.key, !.keySet = last.keySet]
    /\ calls' = calls + 1
    /\ UNCHANGED <<eng, wire, sess, keymsg, thr>>

NextKey ==
    \/ DoSetKey
    \/ DoGenerateRandomKey
    \/ DoGenerateRandomKeyFor
    \/ KeyEncrypt
    \/ KeyEncryptInPlace
    \/ KeyDecrypt
    \/ KeyDecryptInPlace
    \/ DecryptInPlaceNoCtx

SpecKey == InitKey /\ [][NextKey]_vars

PacketOps == {"Encrypt", "EncryptInPlace", "Decrypt", "DecryptInPlace"}

\* C6 as stated: an engine built with an unknown OID never becomes
\* initialised, whatever SetKey / GenerateRandomKey calls follow; and on an
\* uninitialised engine every packet operation is a no-op that returns an
\* empty buffer or a 0 byte count and leaves the caller's padding flag as it
\* was.
UninitialisedNoOp ==
    /\ eng.m_algorithmOID = ID_UNKNOWN => ~eng.m_initialised
    /\ (last.op \in PacketOps /\ ~last.init) =>
          /\ ~last.crash
          /\ last.n = 0 /\ last.out = <<>>
          /\ last.padOut = last.padIn

\* EncryptInPlace on an engine with an unknown OID, after a SetKey that
\* changed nothing, reported 4 bytes of output
UninitialisedEncryptInPlace ==
    /\ eng.m_algorithmOID = ID_UNKNOWN /\ last.keySet /\ ~eng.m_initialised
    /\ last.op = "EncryptInPlace" /\ ~last.init
    /\ Len(last.in) = 4 /\ last.n = 4 /\ last.out = <<0, 0, 0, 0>>

\* the key most recently handed to SetKey has not the length of the cipher
BadKeyLength ==
    /\ last.keySet /\ Supported(eng.m_algorithmOID)
    /\ Len(last.key) # KeyLen(eng.m_algorithmOID)

\* C7 as stated: SetKey with a key whose length differs from the one the
\* engine's cipher mandates (an empty key included) leaves the engine
\* uninitialised, so that Encrypt / Decrypt afterwards return empty output.
BadKeyLeavesUninitialised ==
    BadKeyLength =>
        /\ ~eng.m_initialised
        /\ last.op \in {"Encrypt", "Decrypt"} => last.out = <<>>

\* an AES-128 engine given an 8-byte key is initialised and encrypts
BadKeyEncrypts ==
    /\ BadKeyLength /\ eng.m_algorithmOID = ID_AES128 /\ Len(last.key) = 8
    /\ eng.m_initialised /\ last.op = "Encrypt" /\ last.init
    /\ Len(last.in) = 4 /\ Len(last.out) = 16

\* C10 as stated: GenerateRandomKey(oid) returns exactly keyLen(oid) bytes
\* for a supported oid and an empty key otherwise, on every engine;
\* GenerateRandomKey() returns keyLen(engine's cipher) bytes and leaves the
\* engine initialised with that key.
RandomKeySizing ==
    /\ last.op = "GenerateRandomKey(oid)" => Len(last.out) = KeyLen(last.oid)
    /\ (last.op = "GenerateRandomKey" /\ Supported(eng.m_algorithmOID)) =>
          /\ Len(last.out) = KeyLen(eng.m_algorithmOID)
          /\ eng.m_initialised
          /\ eng.m_encryptCtx.key = last.out /\ eng.m_decryptCtx.key = last.out

\* an AES-128 engine asked for an AES-192 key returned an empty key
RandomKeyMissized ==
    /\ last.op = "GenerateRandomKey(oid)" /\ eng.m_algorithmOID = ID_AES128
    /\ last.oid = ID_AES192 /\ last.out = <<>>

(***************************************************************************)
(* Media key exchange between the two sessions of a call                   *)
(***************************************************************************)
\* calls explored in one run of the key exchange
MaxSessCalls == 4

InitSession ==
    /\ sess \in {[side \in Sides |-> NewSession(oid, DhSecret)] : oid \in AllOIDs}
    /\ keymsg = NoKeyMsg
    /\ thr = NoThreads
    /\ eng = NewEngine(ID_UNKNOWN)
    /\ wire = NoWire
    /\ last = NoOp
    /\ calls = 0

DoCreateSession ==
    /\ calls < MaxSessCalls
    /\ \E side \in Sides, isMaster \in BOOLEAN, r \in Rands :
         \E c \in {CreateSession(sess[side], isMaster, r)} :
            /\ sess' = [sess EXCEPT ![side] = c.s]
            /\ last' = [NoOp EXCEPT !.op = "CreateSession", !.side = side,
                                    !.init = sess[side].m_isInitialised,
                                    !.padIn = isMaster, !.ret = c.ret]
    /\ calls' = calls + 1
    /\ UNCHANGED <<eng, wire, keymsg, thr>>

DoEncodeMediaKey ==
    /\ calls < MaxSessCalls
    /\ \E side \in Sides :
         \E c \in {EncodeMediaKey(sess[side])} :
            /\ sess' = [sess EXCEPT ![side] = c.s]
            /\ keymsg' = [data |-> c.key, from |-> side,
                          key |-> sess[side].m_crytoMasterKey, sent |-> TRUE]
            /\ last' = [NoOp EXCEPT !.op = "EncodeMediaKey", !.side = side,
                                    !.init = sess[side].m_isInitialised,
                                    !.in = sess[side].m_crytoMasterKey,
                                    !.out = c.key]
    /\ calls' = calls + 1
    /\ UNCHANGED <<eng, wire, thr>>

DoDecodeMediaKey ==
    /\ calls < MaxSessCalls
    /\ keymsg.sent
    /\ \E side \in Sides :
         \E c \in {DecodeMediaKey(sess[side], keymsg.data, 0)} :
            /\ sess' = [sess EXCEPT ![side] = c.s]
            /\ last' = [NoOp EXCEPT !.op = "DecodeMediaKey", !.side = side,
                                    !.init = sess[side].m_isInitialised,
                                    !.in = keymsg.data,
                                    !.out = c.s.m_crytoMasterKey, !.ret = c.ret]
    /\ calls' = calls + 1
    /\ UNCHANGED <<eng, wire, keymsg, thr>>

\* the media frames of a call: what the application hands to WriteFrame
MediaFrames == {[payload |-> Plain(4, 68), seq |-> Seed1, padding |-> FALSE]}

\* what arrives for ReadFrame: the frame last written, or a peer's frame
ReceivedFrames ==
    {[payload |-> wire.data, seq |-> Seed1, padding |-> wire.pad],
     [payload |-> PeerPayload(20), seq |-> Seed1, padding |-> FALSE]}

DoWriteFrame ==
    /\ calls < MaxSessCalls
    /\ \E side \in Sides, f \in MediaFrames :
         \E w \in {WriteFrame(sess[side], f)} :
            /\ sess' = [sess EXCEPT ![side] = w.s]
            /\ wire' = [data |-> w.payload, seq |-> f.seq, pad |-> w.padding,
                        pt |-> f.payload, sent |-> TRUE,
                         before |-> Packet(wire)]
            /\ last' = [NoOp EXCEPT !.op = "WriteFrame", !.side = side,
                                    !.init = sess[side].m_context.m_initialised,
                                    !.in = f.payload, !.seq = f.seq,
                                    !.padIn = f.padding, !.out = w.payload,
                                    !.n = w.size, !.padOut = w.padding,
                                    !.ret = w.ret]
    /\ calls' = calls + 1
    /\ UNCHANGED <<eng, keymsg, thr>>

DoReadFrame ==
    /\ calls < MaxSessCalls
    /\ \E side \in Sides, f \in ReceivedFrames :
         \E d \in {ReadFrame(sess[side], f)} :
            /\ sess' = [sess EXCEPT ![side] = d.s]
            /\ last' = [NoOp EXCEPT !.op = "ReadFrame", !.side = side,
                                    !.init = sess[side].m_context.m_initialised,
                                    !.in = f.payload, !.seq = f.seq,
                                    !.padIn = f.padding, !.out = d.payload,
                                    !.n = d.size, !.padOut = d.padding,
                                    !.ret = d.ret]
    /\ calls' = calls + 1
    /\ UNCHANGED <<eng, wire, keymsg, thr>>

NextSession ==
    \/ DoCreateSession
    \/ DoEncodeMediaKey
    \/ DoDecodeMediaKey
    \/ DoWriteFrame
    \/ DoReadFrame

SpecSession == InitSession /\ [][NextSession]_vars

\* the slave "s" decoded the key message that the master "m" encoded from
\* its current media key, both sessions created on the same DH secret
KeyDelivered ==
    /\ last.op = "DecodeMediaKey" /\ last.side = "s" /\ last.ret = TRUE
    /\ keymsg.sent /\ keymsg.from = "m" /\ last.in = keymsg.data
    /\ sess["m"].m_isInitialised /\ sess["m"].m_isMaster
    /\ sess["s"].m_isInitialised /\ ~sess["s"].m_isMaster
    /\ keymsg.key = sess["m"].m_crytoMasterKey
    /\ Supported(sess["m"].m_context.m_algorithmOID)

\* C9 as stated: for AES-128, AES-192 and AES-256, after CreateSession(true)
\* on the master and CreateSession(false) on the slave, DecodeMediaKey on the
\* output of the master's EncodeMediaKey leaves the slave with a media key
\* equal to the master's in length and in every byte, and the slave's media
\* engine initialised with it.
MediaKeyRoundTrip ==
    KeyDelivered =>
        /\ sess["s"].m_crytoMasterKey = sess["m"].m_crytoMasterKey
        /\ sess["s"].m_context.m_initialised
        /\ sess["s"].m_context.m_encryptCtx.key = sess["m"].m_crytoMasterKey

\* AES-192: the master's key has 24 bytes, the slave stores 32
MediaKeyLengthDiffers ==
    /\ KeyDelivered /\ sess["m"].m_context.m_algorithmOID = ID_AES192
    /\ Len(sess["m"].m_crytoMasterKey) = 24
    /\ Len(sess["s"].m_crytoMasterKey) = 32
    /\ Sub(sess["s"].m_crytoMasterKey, 0, 24) = sess["m"].m_crytoMasterKey

\* the trailing keyLen bytes of the DH secret of session s
TrailingSecret(s) ==
    Sub(s.m_dh, Len(s.m_dh) - KeyLen(s.m_context.m_algorithmOID),
        KeyLen(s.m_context.m_algorithmOID))

\* what holds of a created session with a supported cipher in every state
CreatedSession(side) ==
    LET s == sess[side] IN
    (s.m_isInitialised /\ Supported(s.m_context.m_algorithmOID)) =>
        /\ s.m_dhcontext.m_initialised
        /\ s.m_dhcontext.m_encryptCtx.key = TrailingSecret(s)
        /\ s.m_dhcontext.m_decryptCtx.key = TrailingSecret(s)
        /\ (last.op = "CreateSession" /\ last.side = side /\ last.ret = TRUE) =>
              /\ s.m_isMaster = last.padIn
              /\ s.m_context.m_initialised = s.m_isMaster
              /\ s.m_isMaster =>
                    /\ Len(s.m_crytoMasterKey) = KeyLen(s.m_context.m_algorithmOID)
                    /\ s.m_context.m_encryptCtx.key = s.m_crytoMasterKey
                    /\ s.m_context.m_decryptCtx.key = s.m_crytoMasterKey
        /\ (last.op \in {"WriteFrame", "ReadFrame"} /\ last.side = side
               /\ ~s.m_context.m_initialised) =>
              (last.out = <<>> /\ last.n = 0)

\* a step that initialises the media engine of a session is CreateSession(true)
\* or DecodeMediaKey on that session
MediaEngineKeyedBy(side) ==
    (~sess[side].m_context.m_initialised /\ sess'[side].m_context.m_initialised) =>
        /\ last'.side = side
        /\ \/ last'.op = "DecodeMediaKey" /\ last'.ret = TRUE
           \/ last'.op = "CreateSession" /\ last'.ret = TRUE /\ last'.padIn

Written(ss, side) ==
    <<ss[side].m_isMaster, ss[side].m_dhcontext, ss[side].m_crytoMasterKey,
      ss[side].m_context, ss[side].m_isInitialised>>

\* the step is a CreateSession call: the first one on its session returns
\* true and sets m_isInitialised, a later one returns false and writes nothing
CreateSessionStep ==
    last'.op = "CreateSession" =>
        IF sess[last'.side].m_isInitialised
        THEN /\ last'.ret = FALSE
             /\ Written(sess', last'.side) = Written(sess, last'.side)
        ELSE /\ last'.ret = TRUE
             /\ sess'[last'.side].m_isInitialised

\* no step clears m_isInitialised
StaysInitialised ==
    \A side \in Sides :
        sess[side].m_isInitialised => sess'[side].m_isInitialised

\* C23: the first CreateSession call returns true and sets the session
\* initialised; every later CreateSession call, with either value of
\* isMaster, returns false and leaves is_master, the KEK engine, the media
\* key, the media engine and the initialised flag unchanged.
CreateSessionOnce == [][CreateSessionStep /\ StaysInitialised]_vars

\* a second CreateSession, asking for the master role, was refused on a
\* session created as slave, which is still a slave without a media key
CreateSessionRefused ==
    /\ last.op = "CreateSession" /\ last.init /\ last.padIn
    /\ last.ret = FALSE
    /\ sess[last.side].m_isInitialised /\ ~sess[last.side].m_isMaster
    /\ sess[last.side].m_crytoMasterKey = <<>>
    /\ ~sess[last.side].m_context.m_initialised

\* key messages a session can be handed: the one last encoded, none, and
\* bytes that no session encoded
DecodeInputs ==
    {keymsg.data, <<>>, PeerPayload(5), PeerPayload(16), PeerPayload(20)}

\* what DecodeMediaKey returned, as c, for a session s
DecodeOutcome(s, c) ==
    IF s.m_isInitialised THEN c.ret = TRUE
    ELSE c.ret = FALSE /\ c.s = s

\* C24: when the session is not initialised, DecodeMediaKey returns false and
\* leaves the stored media key and the media engine's state (uninitialised)
\* unchanged; once the session is initialised DecodeMediaKey returns true for
\* every input.
DecodeNeedsSession ==
    /\ \A side \in Sides, key \in DecodeInputs :
          DecodeOutcome(sess[side], DecodeMediaKey(sess[side], key, 0))
    /\ \A side \in Sides :
          ~sess[side].m_isInitialised =>
              /\ ~sess[side].m_context.m_initialised
              /\ sess[side].m_crytoMasterKey = <<>>
    /\ last.op = "DecodeMediaKey" => last.ret = last.init

\* the key message of a created master reached a session that was never
\* created, which refused it and holds no key
DecodeRefused ==
    /\ last.op = "DecodeMediaKey" /\ ~last.init /\ last.ret = FALSE
    /\ keymsg.sent /\ last.in = keymsg.data /\ Len(last.in) >= 16
    /\ sess[keymsg.from].m_isInitialised /\ sess[keymsg.from].m_isMaster
    /\ ~sess[last.side].m_isInitialised
    /\ sess[last.side].m_crytoMasterKey = <<>>
    /\ ~sess[last.side].m_context.m_initialised

\* a CreateSession call on session side has just returned true
Created(side) ==
    last'.op = "CreateSession" /\ last'.side = side /\ last'.ret = TRUE

\* what IsActive returns changes only from true to false, and only in the
\* step of a successful CreateSession, which always changes it
ActiveStep ==
    \A side \in Sides :
        /\ Created(side) => (IsActive(sess[side]) /\ ~IsActive(sess'[side]))
        /\ IsActive(sess'[side]) # IsActive(sess[side]) => Created(side)

\* C25: IsActive is the negation of IsInitialised in every reachable session
\* state: it returns true before the first successful CreateSession and false
\* in every state after it.
ActiveIsNotInitialised ==
    /\ \A side \in Sides : IsActive(sess[side])
    /\ [](\A side \in Sides : IsActive(sess[side]) = ~IsInitialised(sess[side]))
    /\ [][ActiveStep]_vars

\* the master was created and has written a media frame, the slave was not:
\* IsActive is false for the session that encrypts and true for the other
ActiveInverted ==
    /\ last.op = "WriteFrame" /\ last.side = "m" /\ last.n = 16
    /\ sess["m"].m_isInitialised /\ sess["m"].m_context.m_initialised
    /\ ~IsActive(sess["m"])
    /\ ~sess["s"].m_isInitialised /\ IsActive(sess["s"])

(***************************************************************************)
(* SetIV on its own: every IV length, seed and destination buffer          *)
(***************************************************************************)
\* longest IV length handed to SetIV
MaxIvLen == 16
\* bytes of the destination buffer behind the longest IV
IvSlack == 3

IvSeeds == {Seed1, <<0, 0, 0, 0, 0, 9>>, <<255, 1, 254, 2, 253, 3>>}
\* what lies in memory behind the six bytes of the seed
SeedGuards == {<<90, 91>>, <<165, 166>>}
\* the destination buffer before the call
IvBuffers == {[i \in 1..(MaxIvLen + IvSlack) |-> m] : m \in {119, 238}}

InitIV ==
    /\ eng = NewEngine(ID_AES128)
    /\ wire = NoWire
    /\ calls = 0
    /\ sess = NoSessions
    /\ keymsg = NoKeyMsg
    /\ thr = NoThreads
    /\ \E n \in 0..MaxIvLen, b \in IvBuffers :
         \E q \in {NULL} \cup {sd \o g : sd \in IvSeeds, g \in SeedGuards} :
            last = [NoOp EXCEPT !.op = "SetIV:call", !.ivLen = n, !.seq = q,
                                !.in = b]

DoSetIV ==
    /\ last.op = "SetIV:call"
    /\ last' = [last EXCEPT !.op = "SetIV",
                            !.out = SetIV(last.in, last.seq, last.ivLen)]
    /\ calls' = calls + 1
    /\ UNCHANGED <<eng, wire, sess, keymsg, thr>>

NextIV == DoSetIV

SpecIV == InitIV /\ [][NextIV]_vars

\* C3: SetIV writes exactly ivLen bytes with iv[i] = s[i mod 6] for all
\* 0 <= i < ivLen (all zero when the seed is absent), leaves every byte at
\* index >= ivLen as it was, and its result does not depend on what lies
\* behind the six seed bytes.
IVTiling ==
    last.op = "SetIV" =>
        /\ Len(last.out) = Len(last.in)
        /\ \A i \in 0..(Len(last.in) - 1) :
              last.out[i + 1] =
                 IF i >= last.ivLen THEN last.in[i + 1]
                 ELSE IF last.seq = NULL THEN 0
                 ELSE last.seq[(i % IV_SEQUENCE_LEN) + 1]
        /\ last.seq # NULL =>
              \A g \in SeedGuards :
                 SetIV(last.in, Sub(last.seq, 0, IV_SEQUENCE_LEN) \o g, last.ivLen)
                    = last.out
        /\ (last.seq # NULL /\ last.ivLen = 16) =>
              Sub(last.out, 0, 16) =
                 Sub(last.seq, 0, 6) \o Sub(last.seq, 0, 6) \o Sub(last.seq, 0, 4)

\* a 16-byte IV was tiled from a seed: two whole copies and four bytes
IVTilingReached ==
    /\ last.op = "SetIV" /\ last.ivLen = 16 /\ last.seq # NULL
    /\ Sub(last.out, 0, 16) = Seed1 \o Seed1 \o Sub(Seed1, 0, 4)
    /\ last.out[17] = 119

(***************************************************************************)
(* Two packets encrypted under one key with different IV seeds             *)
(***************************************************************************)
\* a second seed, different from Seed1 in its last byte only
Seed2 == <<16, 17, 18, 19, 20, 22>>
SepSeeds == {Seed1, Seed2}

\* the one-block plaintext whose first CBC input under seed s2 is the one of
\* p under seed s1
Colliding(p, s1, s2) ==
    XorBuf(XorBuf(p, SetIV(Zeros(EVP_MAX_IV_LENGTH), s1, AES_BLOCK_SIZE),
                  AES_BLOCK_SIZE),
           SetIV(Zeros(EVP_MAX_IV_LENGTH), s2, AES_BLOCK_SIZE), AES_BLOCK_SIZE)

SepPlains ==
    {Plain(0, 0), Plain(4, 68), Plain(16, 5), Colliding(Plain(16, 5), Seed1, Seed2),
     Plain(33, 9)}

SepInputs == SepPlains \X SepSeeds \X {FALSE}

SepEncrypt == EncryptAct(SepInputs, MaxCalls)

NextSep == SepEncrypt

SpecSep == Init /\ [][NextSep]_vars

\* two packets were encrypted one after the other with different seeds
TwoSeeds == wire.sent /\ wire.before.sent /\ wire.seq # wire.before.seq

\* C12 as stated: after SetKey(K), for every pair of plaintexts P1, P2 (equal
\* or not) and every pair of seeds S1 # S2, the ciphertexts of Encrypt(P1, S1)
\* and Encrypt(P2, S2) differ.
SeedsSeparateAnyPair == TwoSeeds => wire.data # wire.before.data

\* C12: after SetKey(K), for every non-empty plaintext P and every pair of
\* seeds S1 # S2, the ciphertexts of Encrypt(P, S1) and Encrypt(P, S2) have
\* the same length and differ, already in their first block; the empty
\* plaintext gives the empty ciphertext under every seed.
SeedsSeparate ==
    /\ (TwoSeeds /\ wire.pt = wire.before.pt) =>
          /\ Len(wire.data) = Len(wire.before.data)
          /\ IF wire.pt = <<>> THEN wire.data = <<>> /\ wire.before.data = <<>>
             ELSE Sub(wire.data, 0, AES_BLOCK_SIZE)
                     # Sub(wire.before.data, 0, AES_BLOCK_SIZE)
    /\ calls = 0 =>
          \A len \in 0..MaxLen :
             LET P == Plain(len, 7)
                 c1 == Encrypt(eng, P, Seed1, FALSE)
                 c2 == Encrypt(c1.e, P, Seed2, FALSE)
                 c3 == Encrypt(c1.e, P, Seed1, FALSE)
             IN  /\ Len(c1.out) = Len(c2.out)
                 /\ (len > 0) => Sub(c1.out, 0, AES_BLOCK_SIZE)
                                    # Sub(c2.out, 0, AES_BLOCK_SIZE)
                 /\ (len = 0) => c1.out = <<>> /\ c2.out = <<>>
                 /\ c3.out = c1.out

\* the same 4-byte plaintext, encrypted under Seed1 and then under Seed2, gave
\* two different 16-byte ciphertexts
SeedsSeparateReached ==
    /\ TwoSeeds /\ wire.before.seq = Seed1 /\ wire.seq = Seed2
    /\ wire.pt = wire.before.pt /\ Len(wire.pt) = 4
    /\ Len(wire.data) = 16 /\ Len(wire.before.data) = 16
    /\ wire.data # wire.before.data

(***************************************************************************)
(* A stream of packets on one engine, failed frames among them             *)
(***************************************************************************)
\* packet calls explored in one run of the stream
MaxStreamCalls == 3

StreamEncInputs == {<<Plain(17, 170), Seed1, FALSE>>}

\* the frame on the wire, a padded frame that is not block-aligned, an
\* unpadded frame shorter than a block, an unpadded non-aligned frame
StreamDecInputs ==
    {<<wire.data, wire.seq, wire.pad>>, <<PeerPayload(20), Seed1, TRUE>>,
     <<PeerPayload(5), Seed1, FALSE>>, <<PeerPayload(37), Seed2, FALSE>>}

StreamEncrypt == EncryptAct(StreamEncInputs, MaxStreamCalls)

StreamEncryptInPlace == EncryptInPlaceAct(StreamEncInputs, MaxStreamCalls)

StreamDecrypt == DecryptAct(StreamDecInputs, MaxStreamCalls)

StreamDecryptInPlace == DecryptInPlaceAct(StreamDecInputs, MaxStreamCalls)

NextStream ==
    \/ StreamEncrypt
    \/ StreamEncryptInPlace
    \/ StreamDecrypt
    \/ StreamDecryptInPlace

SpecStream == Init /\ [][NextStream]_vars

\* an engine just built by H235CryptoEngine(oid, key) with the key of e
FreshEngine(e) == NewEngineWithKey(e.m_algorithmOID, e.m_encryptCtx.key, 0)

\* the last call, made on a freshly keyed engine: <<bytes, length, flag>>
OnFreshEngine ==
    LET f == FreshEngine(eng) IN
    IF last.op = "Encrypt"
    THEN LET r == Encrypt(f, last.in, last.seq, last.padIn)
         IN  <<r.out, Len(r.out), r.pad>>
    ELSE IF last.op = "EncryptInPlace"
    THEN LET r == EncryptInPlace(f, last.in, Len(last.in), last.seq, last.padIn)
         IN  <<Resize(r.out, r.n), r.n, r.pad>>
    ELSE IF last.op = "Decrypt"
    THEN LET r == Decrypt(f, last.in, last.seq, last.padIn)
         IN  <<r.out, Len(r.out), r.pad>>
    ELSE LET r == DecryptInPlace(f, last.in, Len(last.in), last.seq, last.padIn)
         IN  <<Resize(r.out, r.n), r.n, r.pad>>

\* the decrypt helper was left with a counter set when the last call began
StaleAtEntry == last.hin.buf_len # 0 \/ last.hin.final_used # 0

\* C13: on an initialised engine, after any sequence of Encrypt / Decrypt /
\* EncryptInPlace / DecryptInPlace calls, failed ones included, the bytes,
\* length and padding flag of the next packet call are those of the same call
\* on a freshly keyed engine with the same key; a valid frame that follows a
\* frame that failed to decrypt is decrypted to its plaintext.
PacketIndependence ==
    (last.op \in PacketOps /\ last.init) =>
        /\ <<last.out, last.n, last.padOut>> = OnFreshEngine
        /\ (/\ last.op \in {"Decrypt", "DecryptInPlace"} /\ wire.sent
            /\ last.in = wire.data /\ last.seq = wire.seq /\ last.padIn = wire.pad)
              => (last.out = wire.pt /\ last.n = Len(wire.pt))

\* a 17-byte frame was decrypted to its plaintext by the call after one that
\* failed and left buf_len set and stale bytes in buf
PacketIndependenceReached ==
    /\ last.op = "DecryptInPlace" /\ last.init /\ calls = 3 /\ wire.sent
    /\ last.in = wire.data /\ last.seq = wire.seq /\ last.padIn = wire.pad
    /\ StaleAtEntry /\ last.hin.buf_len = 4
    /\ Sub(last.hin.buf, 0, 4) # Zeros(4)
    /\ Len(wire.pt) = 17 /\ last.out = wire.pt

(***************************************************************************)
(* SetKey and a packet operation called by two threads on one engine       *)
(* Each action is a group of consecutive statements of one call; the       *)
(* groups of SetKey are cut where the context changes between unallocated, *)
(* reset and keyed.                                                        *)
(***************************************************************************)
\* calls started in one run
MaxRaceCalls == 3

\* EVP_CIPHER_CTX_new() / EVP_CIPHER_CTX_reset(ctx): allocated, no cipher, no key
ResetCtx == [NullCtx EXCEPT !.alloc = TRUE]

\* the statement group of SetKey that follows at: 484-497 cipher selection
\* and m_initialised = false, 499-512 and 519-532 the context allocated or
\* reset, 514-517 and 534-537 cipher and key installed, 539-540 the flag set
SetKeyStepAfter(at, supported) ==
    IF at = "select" THEN (IF supported THEN "encryptCtx" ELSE "idle")
    ELSE IF at = "encryptCtx" THEN "encryptInit"
    ELSE IF at = "encryptInit" THEN "decryptCtx"
    ELSE IF at = "decryptCtx" THEN "decryptInit"
    ELSE IF at = "decryptInit" THEN "done"
    ELSE "idle"

\* a SetKey that leaves out EVP_EncryptInit_ex
SetKeyStepNoEncryptInit(e, at, key, fill) ==
    IF at = "select"
    THEN (IF Supported(e.m_algorithmOID) THEN [e EXCEPT !.m_initialised = FALSE]
                                         ELSE e)
    ELSE IF at = "encryptCtx" THEN [e EXCEPT !.m_encryptCtx = ResetCtx]
    ELSE IF at = "encryptInit" THEN e
    ELSE IF at = "decryptCtx" THEN [e EXCEPT !.m_decryptCtx = ResetCtx]
    ELSE IF at = "decryptInit"
    THEN [e EXCEPT !.m_decryptCtx =
                       EVP_InitKey(FALSE, KeyBytesRead(e.m_algorithmOID, key, fill)),
                   !.m_dec_blockSize = AES_BLOCK_SIZE,
                   !.m_dec_ivLength = AES_BLOCK_SIZE,
                   !.m_decryptHelper = Reset(e.m_decryptHelper)]
    ELSE [e EXCEPT !.m_operationCnt = 0, !.m_initialised = TRUE]

SetKeyStep(e, at, key, fill) ==
    IF at = "select"
    THEN (IF Supported(e.m_algorithmOID) THEN [e EXCEPT !.m_initialised = FALSE]
                                         ELSE e)
    ELSE IF at = "encryptCtx" THEN [e EXCEPT !.m_encryptCtx = ResetCtx]
    ELSE IF at = "encryptInit"
    THEN [e EXCEPT !.m_encryptCtx =
                       EVP_InitKey(TRUE, KeyBytesRead(e.m_algorithmOID, key, fill)),
                   !.m_enc_blockSize = AES_BLOCK_SIZE,
                   !.m_enc_ivLength = AES_BLOCK_SIZE,
                   !.m_encryptHelper = Reset(e.m_encryptHelper)]
    ELSE IF at = "decryptCtx" THEN [e EXCEPT !.m_decryptCtx = ResetCtx]
    ELSE IF at = "decryptInit"
    THEN [e EXCEPT !.m_decryptCtx =
                       EVP_InitKey(FALSE, KeyBytesRead(e.m_algorithmOID, key, fill)),
                   !.m_dec_blockSize = AES_BLOCK_SIZE,
                   !.m_dec_ivLength = AES_BLOCK_SIZE,
                   !.m_decryptHelper = Reset(e.m_decryptHelper)]
    ELSE [e EXCEPT !.m_operationCnt = 0, !.m_initialised = TRUE]

\* lines 572-574 of Encrypt
EncryptInit(e, ivSequence) ==
    [e EXCEPT !.m_encryptCtx =
                  EVP_InitIV(@, SetIV(Zeros(EVP_MAX_IV_LENGTH), ivSequence,
                                      e.m_enc_ivLength)),
              !.m_encryptHelper = Reset(@)]

\* lines 579-605 of Encrypt, on the context as it is now
EncryptCrypt(e, data, pad) ==
    EncryptReturn(e, Len(data),
        EncryptFinalStep(e.m_encryptHelper, pad, FALSE,
            EVP_EncryptUpdate(EVP_CIPHER_CTX_set_padding(e.m_encryptCtx, pad),
                              data, Len(data))))

\* lines 663-665 of Decrypt, 699-701 of DecryptInPlace
DecryptInit(e, ivSequence, inPlace) ==
    LET iv == SetIV(IF inPlace THEN e.m_iv ELSE Zeros(EVP_MAX_IV_LENGTH),
                    ivSequence, e.m_dec_ivLength)
    IN  [e EXCEPT !.m_decryptCtx = EVP_InitIV(@, iv),
                  !.m_decryptHelper = Reset(@),
                  !.m_iv = IF inPlace THEN iv ELSE @]

\* the update / final pair of Decrypt and DecryptInPlace on the context ctx1
\* as it is now
DecryptCryptSteps(e, data, cts, inPlace, ctx1) ==
    DecryptFinalStep(cts, inPlace,
        IF cts THEN DecryptUpdateCTS(e.m_decryptHelper, ctx1, data, Len(data))
               ELSE DecryptUpdate(e.m_decryptHelper, ctx1, data, Len(data)))

\* lines 667-689 of Decrypt: [e, out, pad, ...]; 703-726 of DecryptInPlace:
\* [e, n, out, pad, ...]
DecryptCrypt(e, data, rtpPadding, inPlace) ==
    IF inPlace
    THEN DecryptInPlaceReturn(e, e.m_iv, rtpPadding,
             DecryptCryptSteps(e, data,
                 DecryptUsesCTS(rtpPadding, Len(data), e.m_dec_blockSize), TRUE,
                 EVP_CIPHER_CTX_set_padding(e.m_decryptCtx, rtpPadding)))
    ELSE DecryptReturn(e, Len(data),
             DecryptCryptSteps(e, data,
                 DecryptUsesCTS(rtpPadding, Len(data), e.m_dec_blockSize), FALSE,
                 EVP_CIPHER_CTX_set_padding(e.m_decryptCtx, rtpPadding)))

\* the keys the key thread installs
RaceKeys == {RandBytes(16, 0), KeyOfLen(16)}

\* the calls of the packet thread: <<operation, data, ivSequence, rtpPadding>>
RaceCalls ==
    {<<"Encrypt", Plain(4, 68), Seed1, FALSE>>,
     <<"Decrypt", PeerPayload(20), Seed1, FALSE>>,
     <<"DecryptInPlace", PeerPayload(20), Seed1, FALSE>>}

\* the context the packet thread's call works on
PacketCtx == IF last.op = "Encrypt" THEN eng.m_encryptCtx ELSE eng.m_decryptCtx

\* a single owner starts a call only when no other call is running
MayStart(other) == thr.mode = "two" \/ other = "idle"

InitRace ==
    /\ eng \in {NewEngine(ID_AES128),
                NewEngineWithKey(ID_AES128, RandBytes(16, 0), 0)}
    /\ wire = NoWire
    /\ last = NoOp
    /\ calls = 0
    /\ sess = NoSessions
    /\ keymsg = NoKeyMsg
    /\ thr \in {[NoThreads EXCEPT !.mode = m, !.keyed = eng.m_initialised] :
                    m \in {"single", "two"}}

\* SetKey(key) is called
RaceSetKey ==
    /\ thr.k = "idle" /\ thr.p # "crashed" /\ MayStart(thr.p)
    /\ calls < MaxRaceCalls
    /\ \E key \in RaceKeys : thr' = [thr EXCEPT !.k = "select", !.key = key]
    /\ calls' = calls + 1
    /\ UNCHANGED <<eng, wire, last, sess, keymsg>>

\* the key thread runs the next statement group of SetKey
RaceSetKeyStep ==
    /\ thr.k # "idle" /\ thr.p # "crashed"
    /\ eng' = SetKeyStep(eng, thr.k, thr.key, 0)
    /\ thr' = [thr EXCEPT !.k = SetKeyStepAfter(thr.k, Supported(eng.m_algorithmOID)),
                          !.keyed = @ \/ thr.k = "done"]
    /\ UNCHANGED <<wire, last, calls, sess, keymsg>>

\* Encrypt, Decrypt or DecryptInPlace is called; DecryptInPlace has no
\* m_initialised test and goes straight to its context
RacePacketCall ==
    /\ thr.p = "idle" /\ MayStart(thr.k)
    /\ calls < MaxRaceCalls
    /\ \E c \in RaceCalls :
         /\ last' = [NoOp EXCEPT !.op = c[1], !.in = c[2], !.seq = c[3],
                                 !.padIn = c[4], !.padOut = c[4],
                                 !.init = eng.m_initialised]
         /\ thr' = [thr EXCEPT !.p = IF c[1] = "DecryptInPlace"
                                     THEN "init" ELSE "check"]
    /\ calls' = calls + 1
    /\ UNCHANGED <<eng, wire, sess, keymsg>>

\* lines 561-562 / 652-653: if (!m_initialised) return PBYTEArray()
RacePacketCheck ==
    /\ thr.p = "check"
    /\ thr' = [thr EXCEPT !.p = IF eng.m_initialised THEN "init" ELSE "idle"]
    /\ last' = [last EXCEPT !.init = eng.m_initialised]
    /\ UNCHANGED <<eng, wire, calls, sess, keymsg>>

\* SetIV, EVP_*Init_ex with the IV, Reset.  On a context without a cipher the
\* behaviour is undefined: OpenSSL reports an error that the caller ignores,
\* or the process ends.
RacePacketInit ==
    /\ thr.p = "init"
    /\ IF PacketCtx.mode = "CBC"
       THEN /\ eng' = IF last.op = "Encrypt" THEN EncryptInit(eng, last.seq)
                      ELSE DecryptInit(eng, last.seq, last.op = "DecryptInPlace")
            /\ thr' = [thr EXCEPT !.p = "crypt"]
       ELSE /\ \E crash \in BOOLEAN :
                 thr' = [thr EXCEPT !.p = IF crash THEN "crashed" ELSE "crypt"]
            /\ UNCHANGED eng
    /\ UNCHANGED <<wire, last, calls, sess, keymsg>>

\* padding mode, update, final and the return.  On a context without a cipher
\* the behaviour is undefined: the process ends, or the steps fail and the
\* call returns no bytes.
RacePacketCrypt ==
    /\ thr.p = "crypt"
    /\ IF PacketCtx.mode = "CBC"
       THEN \E r \in {IF last.op = "Encrypt"
                      THEN EncryptCrypt(eng, last.in,
                               EncryptPadding(Len(last.in), eng.m_enc_blockSize))
                      ELSE DecryptCrypt(eng, last.in, last.padIn,
                                        last.op = "DecryptInPlace")} :
               /\ eng' = r.e
               /\ last' = [last EXCEPT
                              !.out = IF last.op = "DecryptInPlace"
                                      THEN Resize(r.out, r.n) ELSE r.out,
                              !.n = IF last.op = "DecryptInPlace"
                                    THEN r.n ELSE Len(r.out),
                              !.padOut = r.pad]
               /\ thr' = [thr EXCEPT !.p = "idle"]
       ELSE /\ \E crash \in BOOLEAN :
                 /\ thr' = [thr EXCEPT !.p = IF crash THEN "crashed" ELSE "idle"]
                 /\ last' = [last EXCEPT !.crash = crash]
            /\ UNCHANGED eng
    /\ UNCHANGED <<wire, calls, sess, keymsg>>

NextRace ==
    \/ RaceSetKey
    \/ RaceSetKeyStep
    \/ RacePacketCall
    \/ RacePacketCheck
    \/ RacePacketInit
    \/ RacePacketCrypt

SpecRace == InitRace /\ [][NextRace]_vars

\* the packet call is past its m_initialised test (DecryptInPlace has none)
\* and about to use a context that SetKey has reset and not yet keyed
RacyUse ==
    /\ thr.p \in {"init", "crypt"}
    /\ PacketCtx.alloc /\ PacketCtx.mode = "NONE"

\* C14, the sequential half: when every call on the engine is issued by a
\* single owner, one call after the other, no packet operation ever uses a
\* context that SetKey has reset and not yet re-keyed; the only call that
\* meets a context without a cipher is DecryptInPlace on an engine that was
\* never keyed (its context was never allocated); and between calls a keyed
\* engine holds the key last installed in both contexts.
SequentialSetKeySafe ==
    thr.mode = "single" =>
        /\ ~RacyUse
        /\ (thr.p = "crashed" \/ (thr.p = "crypt" /\ PacketCtx.mode # "CBC")) =>
              (last.op = "DecryptInPlace" /\ ~thr.keyed /\ ~PacketCtx.alloc)
        /\ (thr.k = "idle" /\ thr.keyed /\ thr.p \in {"idle", "check"}) =>
              /\ eng.m_initialised
              /\ eng.m_encryptCtx.mode = "CBC" /\ eng.m_decryptCtx.mode = "CBC"
              /\ eng.m_encryptCtx.key = eng.m_decryptCtx.key
              /\ thr.key # <<>> => eng.m_encryptCtx.key = thr.key

\* C14, the racing half: with two threads, Encrypt passed its m_initialised
\* test on a keyed engine and is about to use the encrypt context that a
\* concurrent SetKey has reset and not yet keyed
SetKeyRaceReached ==
    /\ thr.mode = "two" /\ RacyUse
    /\ last.op = "Encrypt" /\ last.init /\ thr.p = "init"
    /\ thr.k = "encryptInit" /\ ~eng.m_initialised

(***************************************************************************)
(* H235CryptoHelper on its own: any sequence of its calls on one of the    *)
(* engine's two helper / context pairs                                     *)
(***************************************************************************)
\* helper calls explored in one run
MaxHelperCalls == 3

\* input lengths of the update calls (a negative length included)
HelperLens == {-1, 0, 1, 4, 12, 15, 16, 20, 32}

\* the bytes the caller feeds, one long stream cut into the calls' inputs
FedStream == PeerPayload(32 * (MaxHelperCalls + 1))

\* the helper under test and its context: the engine's encrypt or decrypt pair
HelperOf(e, side) == IF side = "enc" THEN e.m_encryptHelper ELSE e.m_decryptHelper
CtxOf(e, side) == IF side = "enc" THEN e.m_encryptCtx ELSE e.m_decryptCtx

\* the engine after a helper call that returned r
HelperCalled(e, side, r) ==
    IF side = "enc" THEN [e EXCEPT !.m_encryptHelper = r.h, !.m_encryptCtx = r.ctx]
                    ELSE [e EXCEPT !.m_decryptHelper = r.h, !.m_decryptCtx = r.ctx]

\* the stream since the last Reset: bytes fed, bytes emitted, the kind of
\* update calls that consumed it, the context's IV when it began
NoStream(iv) == [in |-> <<>>, out |-> <<>>, kind |-> "none", iv |-> iv]

StreamAfter(kind, inl, in, r) ==
    IF inl <= 0 THEN wire
    ELSE [wire EXCEPT !.in = @ \o in, !.out = @ \o Sub(r.out, 0, r.outl),
                      !.kind = IF @ \in {"none", kind} THEN kind ELSE "mixed"]

\* an engine keyed and set up for a packet: IV and padding mode installed in
\* both contexts
InitHelper ==
    /\ \E pad \in BOOLEAN :
         \E e \in {NewEngineWithKey(ID_AES128, RandBytes(16, 0), 0)} :
            eng = [e EXCEPT
                     !.m_encryptCtx = EVP_CIPHER_CTX_set_padding(
                         EVP_InitIV(@, SetIV(Zeros(EVP_MAX_IV_LENGTH), Seed1, 16)), pad),
                     !.m_decryptCtx = EVP_CIPHER_CTX_set_padding(
                         EVP_InitIV(@, SetIV(Zeros(EVP_MAX_IV_LENGTH), Seed1, 16)), pad)]
    /\ wire = NoStream(SetIV(Zeros(EVP_MAX_IV_LENGTH), Seed1, 16))
    /\ last \in {[NoOp EXCEPT !.side = sd] : sd \in {"enc", "dec"}}
    /\ calls = 0
    /\ sess = NoSessions
    /\ keymsg = NoKeyMsg
    /\ thr = NoThreads

\* an update call f(ctx, out, &outl, in, inl) that returned r
HelperUpdated(f, kind, in, inl, r) ==
    /\ eng' = HelperCalled(eng, last.side, r)
    /\ wire' = StreamAfter(kind, inl, in, r)
    /\ last' = [NoOp EXCEPT !.op = f, !.side = last.side, !.in = in, !.inl = inl,
                            !.hin = HelperOf(eng, last.side),
                            !.ivIn = CtxOf(eng, last.side).iv,
                            !.upd = [ret |-> r.ret, outl |-> r.outl, out |-> r.out],
                            !.hfin = r.h]
    /\ calls' = calls + 1
    /\ UNCHANGED <<sess, keymsg, thr>>

\* a final call f(ctx, out, &outl) that returned r
HelperFinished(f, r) ==
    /\ eng' = HelperCalled(eng, last.side, r)
    /\ wire' = [wire EXCEPT !.out = @ \o Sub(r.out, 0, r.outl), !.kind = "mixed"]
    /\ last' = [NoOp EXCEPT !.op = f, !.side = last.side,
                            !.hin = HelperOf(eng, last.side),
                            !.ivIn = CtxOf(eng, last.side).iv,
                            !.fin = [ret |-> r.ret, outl |-> r.outl, out |-> r.out],
                            !.hfin = r.h]
    /\ calls' = calls + 1
    /\ UNCHANGED <<sess, keymsg, thr>>

\* the next inl bytes of the fed stream
Fed(inl) == Sub(FedStream, Len(wire.in), Max(inl, 0))

HelperReset ==
    /\ calls < MaxHelperCalls
    /\ eng' = HelperCalled(eng, last.side,
                           [h |-> Reset(HelperOf(eng, last.side)),
                            ctx |-> CtxOf(eng, last.side)])
    /\ wire' = NoStream(CtxOf(eng, last.side).iv)
    /\ last' = [NoOp EXCEPT !.op = "Reset", !.side = last.side,
                            !.hin = HelperOf(eng, last.side),
                            !.ivIn = CtxOf(eng, last.side).iv,
                            !.hfin = Reset(HelperOf(eng, last.side))]
    /\ calls' = calls + 1
    /\ UNCHANGED <<sess, keymsg, thr>>

HelperEncryptUpdate ==
    /\ calls < MaxHelperCalls
    /\ \E inl \in HelperLens :
         HelperUpdated("EncryptUpdate", "std", Fed(inl), inl,
             EncryptUpdate(HelperOf(eng, last.side), CtxOf(eng, last.side),
                           Fed(inl), inl))

HelperEncryptUpdateCTS ==
    /\ calls < MaxHelperCalls
    /\ \E inl \in HelperLens :
         HelperUpdated("EncryptUpdateCTS", "cts", Fed(inl), inl,
             EncryptUpdateCTS(HelperOf(eng, last.side), CtxOf(eng, last.side),
                              Fed(inl), inl))

HelperDecryptUpdateCTS ==
    /\ calls < MaxHelperCalls
    /\ \E inl \in HelperLens :
         HelperUpdated("DecryptUpdateCTS", "cts", Fed(inl), inl,
             DecryptUpdateCTS(HelperOf(eng, last.side), CtxOf(eng, last.side),
                              Fed(inl), inl))

HelperDecryptUpdate ==
    /\ calls < MaxHelperCalls
    /\ \E inl \in HelperLens :
         HelperUpdated("DecryptUpdate",
             IF CtxOf(eng, last.side).padding THEN "padded" ELSE "std",
             Fed(inl), inl,
             DecryptUpdate(HelperOf(eng, last.side), CtxOf(eng, last.side),
                           Fed(inl), inl))

HelperEncryptFinalCTS ==
    /\ calls < MaxHelperCalls
    /\ HelperFinished("EncryptFinalCTS",
           EncryptFinalCTS(HelperOf(eng, last.side), CtxOf(eng, last.side)))

HelperDecryptFinalCTS ==
    /\ calls < MaxHelperCalls
    /\ HelperFinished("DecryptFinalCTS",
           DecryptFinalCTS(HelperOf(eng, last.side), CtxOf(eng, last.side)))

HelperDecryptFinalRelaxed ==
    /\ calls < MaxHelperCalls
    /\ HelperFinished("DecryptFinalRelaxed",
           DecryptFinalRelaxed(HelperOf(eng, last.side), CtxOf(eng, last.side)))

NextHelper ==
    \/ HelperReset
    \/ HelperEncryptUpdate
    \/ HelperEncryptUpdateCTS
    \/ HelperDecryptUpdateCTS
    \/ HelperDecryptUpdate
    \/ HelperEncryptFinalCTS
    \/ HelperDecryptFinalCTS
    \/ HelperDecryptFinalRelaxed

SpecHelper == InitHelper /\ [][NextHelper]_vars

\* the helper under test, and the names of its update calls
Helper == HelperOf(eng, last.side)
CtsUpdates == {"EncryptUpdateCTS", "DecryptUpdateCTS"}

\* buf_len and final_used within their ranges, both arrays at their size
CountersInRange ==
    /\ 0 <= Helper.buf_len /\ Helper.buf_len <= AES_BLOCK_SIZE
    /\ Helper.final_used \in {0, 1}
    /\ Len(Helper.buf) = EVP_MAX_BLOCK_LENGTH
    /\ Len(Helper.final_buf) = EVP_MAX_BLOCK_LENGTH

\* C15 as stated: in every state reached by any sequence of helper calls with
\* any input lengths, 0 <= buf_len <= block_size and final_used is 0 or 1, no
\* call writes past the end of buf or final_buf, and after every standard
\* EncryptUpdate buf_len is strictly less than block_size.
StagingBoundAnyUpdate ==
    /\ CountersInRange
    /\ last.op = "EncryptUpdate" => Helper.buf_len < AES_BLOCK_SIZE

\* C15: in every state reached by any sequence of helper calls with any
\* input lengths, 0 <= buf_len <= block_size and final_used is 0 or 1, and no
\* call writes past the end of buf or final_buf; after a standard
\* EncryptUpdate with a non-empty input, or one entered with buf_len below
\* block_size, buf_len is strictly less than block_size; one called with
\* inl <= 0 leaves a full block staged by a CTS update as it is.
StagingBound ==
    /\ CountersInRange
    /\ (last.op = "EncryptUpdate"
           /\ (last.inl > 0 \/ last.hin.buf_len < AES_BLOCK_SIZE))
          => Helper.buf_len < AES_BLOCK_SIZE
    /\ (last.op = "EncryptUpdate" /\ last.inl <= 0) => Helper = last.hin

\* a CTS update staged a whole block, and the standard update that followed
\* with an empty input left buf_len at block_size
FullBlockStaged ==
    /\ last.op = "EncryptUpdate" /\ last.inl = 0 /\ last.upd.ret = 1
    /\ last.hin.buf_len = AES_BLOCK_SIZE /\ Helper.buf_len = AES_BLOCK_SIZE
    /\ wire.kind = "cts" /\ Len(wire.in) = 16

\* a CTS update with a non-empty input returned success
CtsUpdateDone ==
    last.op \in CtsUpdates /\ last.inl > 0 /\ last.upd.ret = 1

\* the last n bytes of the stream fed since Reset
StreamTail(n) == Sub(wire.in, Len(wire.in) - n, n)

\* C16 as stated: on exit from every successful EncryptUpdateCTS /
\* DecryptUpdateCTS call with a non-empty input, final_used = 1 and
\* 0 < buf_len <= block_size, and final_buf followed by buf[0..buf_len) are the
\* last two blocks of the stream consumed so far.
CtsExitAnyLength ==
    CtsUpdateDone =>
        /\ Helper.final_used = 1
        /\ 0 < Helper.buf_len /\ Helper.buf_len <= AES_BLOCK_SIZE
        /\ wire.kind = "cts" =>
              Sub(Helper.final_buf, 0, AES_BLOCK_SIZE)
                  \o Sub(Helper.buf, 0, Helper.buf_len)
                = StreamTail(AES_BLOCK_SIZE + Helper.buf_len)

\* C16: on exit from every successful EncryptUpdateCTS / DecryptUpdateCTS call
\* with a non-empty input, 0 < buf_len <= block_size; when the CTS updates
\* since Reset have consumed more than block_size bytes, final_used = 1 and
\* final_buf followed by buf[0..buf_len) are the last two blocks of that
\* stream, all earlier blocks having been enciphered and emitted; when they
\* have consumed no more than block_size bytes, the call only stages them:
\* final_used stays 0, buf[0..buf_len) is the whole stream and nothing is
\* emitted.
CtsExit ==
    CtsUpdateDone =>
        /\ 0 < Helper.buf_len /\ Helper.buf_len <= AES_BLOCK_SIZE
        /\ wire.kind = "cts" =>
              IF Len(wire.in) > AES_BLOCK_SIZE
              THEN /\ Helper.final_used = 1
                   /\ Helper.buf_len = ((Len(wire.in) - 1) % AES_BLOCK_SIZE) + 1
                   /\ Sub(Helper.final_buf, 0, AES_BLOCK_SIZE)
                          \o Sub(Helper.buf, 0, Helper.buf_len)
                        = StreamTail(AES_BLOCK_SIZE + Helper.buf_len)
                   /\ wire.out =
                         CipherBlocks(CtxOf(eng, last.side).key, last.side = "enc",
                                      "CBC", wire.iv,
                                      Sub(wire.in, 0, Len(wire.in) - AES_BLOCK_SIZE
                                                        - Helper.buf_len)).out
              ELSE /\ Helper.final_used = 0
                   /\ Helper.buf_len = Len(wire.in)
                   /\ Sub(Helper.buf, 0, Helper.buf_len) = wire.in
                   /\ wire.out = <<>>

\* two CTS updates of 20 bytes each: the first 16 bytes were emitted
\* enciphered, final_buf holds bytes 16..31 and buf the last 8
CtsExitReached ==
    /\ CtsUpdateDone /\ wire.kind = "cts" /\ last.op = "DecryptUpdateCTS"
    /\ last.inl = 20 /\ Len(wire.in) = 40 /\ Len(wire.out) = 16
    /\ Helper.final_used = 1 /\ Helper.buf_len = 8
    /\ Sub(Helper.final_buf, 0, 16) = Sub(wire.in, 16, 16)
    /\ Sub(Helper.buf, 0, 8) = Sub(wire.in, 32, 8)

\* the CTS final calls
CtsFinals == {"EncryptFinalCTS", "DecryptFinalCTS"}

\* C17: EncryptFinalCTS and DecryptFinalCTS return failure and emit 0 bytes
\* whenever final_used is clear or buf_len = 0, and leave buf_len and
\* final_used unchanged; in CBC mode, when final_used is set and buf_len > 0,
\* they succeed and emit exactly block_size + buf_len bytes.
CtsFinalPreconditions ==
    last.op \in CtsFinals =>
        IF last.hin.final_used = 0 \/ last.hin.buf_len = 0
        THEN /\ last.fin.ret = 0
             /\ last.fin.outl = 0
             /\ last.hfin.buf_len = last.hin.buf_len
             /\ last.hfin.final_used = last.hin.final_used
             /\ wire.out = Sub(wire.out, 0, Len(wire.out) - last.fin.outl)
        ELSE CtxOf(eng, last.side).mode = "CBC" =>
               /\ last.fin.ret = 1
               /\ last.fin.outl = AES_BLOCK_SIZE + last.hin.buf_len
               /\ Len(last.fin.out) = AES_BLOCK_SIZE + last.hin.buf_len

\* DecryptFinalCTS refused a helper that holds a block and no partial one
\* (left by a padded DecryptUpdate of 16 bytes)
CtsFinalRefused ==
    /\ last.op = "DecryptFinalCTS"
    /\ last.hin.final_used = 1 /\ last.hin.buf_len = 0
    /\ last.fin.ret = 0 /\ last.fin.outl = 0

\* the whole blocks of the stream fed since Reset, passed through the context's
\* cipher from the IV the stream began with
StreamCiphered ==
    CipherBlocks(CtxOf(eng, last.side).key, last.side = "enc", "CBC", wire.iv,
                 Sub(wire.in, 0, AES_BLOCK_SIZE * (Len(wire.in) \div AES_BLOCK_SIZE)))

\* the stream ends on a block boundary: its last block is held back
Held == Len(wire.in) > 0 /\ Len(wire.in) % AES_BLOCK_SIZE = 0

\* what StreamCiphered gives for the stream, passed as d
LookaheadOf(d) ==
    /\ wire.out = Sub(d.out, 0, IF Held THEN Len(wire.in) - AES_BLOCK_SIZE
                                         ELSE Len(d.out))
    /\ Helper.final_used = (IF Held THEN 1 ELSE 0)
    /\ Held => Sub(Helper.final_buf, 0, AES_BLOCK_SIZE)
                 = Sub(d.out, Len(wire.in) - AES_BLOCK_SIZE, AES_BLOCK_SIZE)
    /\ Helper.buf_len = Len(wire.in) % AES_BLOCK_SIZE
    /\ Sub(Helper.buf, 0, Helper.buf_len) = StreamTail(Helper.buf_len)
    /\ CtxOf(eng, last.side).iv = d.iv

\* a padded DecryptUpdate with a non-empty input, entered with a block held
HeldAtEntry ==
    /\ last.op = "DecryptUpdate" /\ CtxOf(eng, last.side).padding
    /\ last.inl > 0 /\ last.hin.final_used = 1

\* C19: with padding enabled, after Reset and any sequence of DecryptUpdate
\* calls whose input lengths sum to T, the bytes emitted so far are the
\* deciphered stream truncated to T - block_size bytes when T > 0 and T mod
\* block_size = 0 (the last deciphered block is held in final_buf with
\* final_used set), and to block_size * floor(T / block_size) bytes otherwise
\* (final_used clear); the emitted bytes, the counters, the bytes staged in
\* buf, the held block and the context's chaining value are functions of the
\* stream alone, not of how it was split into calls; and a held block is
\* emitted first by the next update that has a non-empty input.
PaddedLookahead ==
    /\ wire.kind = "padded" => LookaheadOf(StreamCiphered)
    /\ HeldAtEntry =>
          /\ last.upd.ret = 1
          /\ last.upd.outl >= AES_BLOCK_SIZE
          /\ Sub(last.upd.out, 0, AES_BLOCK_SIZE)
                = Sub(last.hin.final_buf, 0, AES_BLOCK_SIZE)

\* 16 + 4 + 12 bytes through the decrypt context: the 4-byte update handed on
\* the block held after the first call, the third call completed the second
\* block, which is held in turn
PaddedLookaheadReached ==
    /\ wire.kind = "padded" /\ last.side = "dec" /\ calls = 3
    /\ Len(wire.in) = 32 /\ last.inl = 12
    /\ last.hin.buf_len = 4 /\ last.hin.final_used = 0
    /\ last.upd.outl = 0
    /\ Len(wire.out) = 16 /\ wire.out # Sub(wire.in, 0, 16)
    /\ Helper.final_used = 1 /\ Helper.buf_len = 0

\* a standard update: EncryptUpdate, or DecryptUpdate on a context without
\* padding, which hands the call to it
StandardUpdate ==
    \/ last.op = "EncryptUpdate"
    \/ last.op = "DecryptUpdate" /\ ~CtxOf(eng, last.side).padding

\* the bytes a standard update has to encipher: the staged ones, then the input
Pending == Sub(last.hin.buf, 0, last.hin.buf_len) \o last.in

\* the call left the helper and the context's chaining value as they were
NoStateChange ==
    /\ last.hfin = last.hin
    /\ CtxOf(eng, last.side).iv = last.ivIn

\* C20: for every helper state with buf_len = b < block_size and every input
\* length inl >= 0, EncryptUpdate succeeds, emits exactly
\* block_size * floor((b + inl) / block_size) bytes - the whole blocks of the
\* staged bytes followed by the input, enciphered - and leaves
\* buf_len = (b + inl) mod block_size with the remainder staged; an update with
\* inl = 0 succeeds, emits zero bytes and changes no state; a negative inl
\* returns failure with zero bytes emitted and no state change.
UpdateAccounting ==
    StandardUpdate =>
        /\ (last.inl >= 0 /\ last.hin.buf_len < AES_BLOCK_SIZE) =>
              /\ last.upd.ret = 1
              /\ last.upd.outl =
                    AES_BLOCK_SIZE * ((last.hin.buf_len + last.inl) \div AES_BLOCK_SIZE)
              /\ Sub(last.upd.out, 0, last.upd.outl) =
                    CipherBlocks(CtxOf(eng, last.side).key, last.side = "enc", "CBC",
                                 last.ivIn, Sub(Pending, 0, last.upd.outl)).out
              /\ last.hfin.buf_len = (last.hin.buf_len + last.inl) % AES_BLOCK_SIZE
              /\ Sub(last.hfin.buf, 0, last.hfin.buf_len) =
                    Sub(Pending, last.upd.outl, last.hfin.buf_len)
              /\ last.hfin.final_used = last.hin.final_used
        /\ last.inl = 0 =>
              last.upd.ret = 1 /\ last.upd.outl = 0 /\ NoStateChange
        /\ last.inl < 0 =>
              last.upd.ret = 0 /\ last.upd.outl = 0 /\ NoStateChange

\* EncryptUpdate entered with 15 bytes staged and given 20 more: two blocks
\* out, 3 bytes staged
UpdateAccountingReached ==
    /\ last.op = "EncryptUpdate" /\ last.side = "enc"
    /\ last.hin.buf_len = 15 /\ last.inl = 20
    /\ last.upd.ret = 1 /\ last.upd.outl = 32
    /\ Helper.buf_len = 3
    /\ Sub(Helper.buf, 0, 3) = Sub(last.in, 17, 3)

(***************************************************************************)
(* The in-place forms against the by-value forms                           *)
(***************************************************************************)
\* the step is an EncryptInPlace call on an initialised engine, and Encrypt
\* called instead, on the same engine with the same arguments, returns
\* the same bytes, length and flag
EncryptFormsAgree ==
    (last'.op = "EncryptInPlace" /\ eng.m_initialised) =>
        \A r \in {Encrypt(eng, last'.in, last'.seq, last'.padIn)} :
            /\ last'.out = r.out
            /\ last'.n = Len(r.out)
            /\ last'.padOut = r.pad

\* the same for a DecryptInPlace call whose update and final both succeeded
DecryptFormsAgree ==
    (/\ last'.op = "DecryptInPlace" /\ eng.m_initialised
     /\ last'.upd.ret # 0 /\ last'.fin.ret # 0) =>
        \A r \in {Decrypt(eng, last'.in, last'.seq, last'.padIn)} :
            /\ last'.out = r.out
            /\ last'.n = Len(r.out)
            /\ last'.padOut = r.pad
            /\ last'.padOut = FALSE

\* C21: on an initialised engine, for every input, IV seed and incoming
\* paddingFlag, EncryptInPlace produces the same bytes, the same length and
\* the same outgoing paddingFlag as Encrypt; and whenever decryption succeeds
\* DecryptInPlace produces the same bytes, length and outgoing paddingFlag
\* (false) as Decrypt.
InPlaceAgrees == [][EncryptFormsAgree /\ DecryptFormsAgree]_vars

\* DecryptInPlace, as the second call on the engine, took the padded packet
\* made from 17 bytes off the wire with the flag set and returned the 17
\* bytes with the flag cleared
InPlaceAgreesReached ==
    /\ last.op = "DecryptInPlace" /\ last.init /\ calls = 2
    /\ last.upd.ret # 0 /\ last.fin.ret # 0
    /\ last.in = wire.data /\ last.seq = wire.seq /\ last.padIn
    /\ Len(last.in) = 32 /\ last.n = 17 /\ last.out = wire.pt
    /\ ~last.padOut

\* the largest output of an encrypt form for L bytes of input, and of a
\* decrypt form
EncryptBound(L) == L + AES_BLOCK_SIZE - 1
DecryptBound(L) == L

\* a by-value result r stays within n bytes: bytes written and bytes returned
WithinBytes(r, n) == r.written <= n /\ Len(r.out) <= n

\* an in-place result r stays within n bytes
WithinBuffer(r, n) == r.written <= n /\ r.n <= n

\* C22: on an initialised engine, for every input length L, Encrypt /
\* EncryptInPlace write and return at most L + block_size - 1 bytes, and
\* Decrypt / DecryptInPlace write and return at most L bytes on every path
\* (CTS, padded, unpadded, success or failure), the bytes the update step
\* writes before the retained block is subtracted included.
OutputBounded ==
    /\ (last.op \in {"Encrypt", "EncryptInPlace"} /\ last.init) =>
          /\ last.written <= EncryptBound(Len(last.in))
          /\ last.n <= EncryptBound(Len(last.in))
    /\ (last.op \in {"Decrypt", "DecryptInPlace"} /\ last.init) =>
          /\ last.written <= DecryptBound(Len(last.in))
          /\ last.n <= DecryptBound(Len(last.in))
          /\ Len(last.upd.out) <= DecryptBound(Len(last.in))
          /\ last.upd.outl + Len(last.fin.out) <= DecryptBound(Len(last.in))
    /\ calls = 0 =>
          \A len \in 0..MaxLen, p \in BOOLEAN :
             /\ WithinBytes(Encrypt(eng, Plain(len, 7), Seed1, p), EncryptBound(len))
             /\ WithinBuffer(EncryptInPlace(eng, Plain(len, 7), len, Seed1, p),
                             EncryptBound(len))
             /\ WithinBytes(Decrypt(eng, PeerPayload(len), Seed1, p),
                            DecryptBound(len))
             /\ WithinBuffer(DecryptInPlace(eng, PeerPayload(len), len, Seed1, p),
                             DecryptBound(len))

\* Decrypt of the 32-byte padded packet made from 17 bytes: the update wrote
\* all 32 bytes, gave 16 of them back as retained, and the final step added
\* one byte
OutputBoundedReached ==
    /\ last.op = "Decrypt" /\ last.init /\ last.padIn /\ ~last.cts
    /\ Len(last.in) = 32 /\ Len(last.upd.out) = 32 /\ last.upd.outl = 16
    /\ last.fin.outl = 1 /\ last.written = 32 /\ last.n = 17

(***************************************************************************)
(* Ciphertext stealing end to end: one plaintext through the encrypt       *)
(* helper's CTS calls, the bytes it produced through the decrypt helper's  *)
(***************************************************************************)
\* the calls of one round trip, in order
CtsCalls == <<"Reset", "EncryptUpdateCTS", "EncryptFinalCTS",
              "Reset", "DecryptUpdateCTS", "DecryptFinalCTS">>

CtsSide == IF calls < 3 THEN "enc" ELSE "dec"

InitCts ==
    /\ \E oid \in SupportedOIDs, seed \in SepSeeds :
         \E e \in {NewEngineWithKey(oid, RandBytes(KeyLen(oid), 0), 0)},
            iv \in {SetIV(Zeros(EVP_MAX_IV_LENGTH), seed, AES_BLOCK_SIZE)} :
            /\ eng = [e EXCEPT !.m_encryptCtx = EVP_InitIV(@, iv),
                               !.m_decryptCtx = EVP_InitIV(@, iv)]
            /\ \E len \in 1..MaxLen :
                  wire = [plain |-> Plain(len, 1), cipher |-> <<>>,
                          deciphered |-> <<>>, iv |-> iv]
    /\ last = NoOp
    /\ calls = 0
    /\ sess = NoSessions
    /\ keymsg = NoKeyMsg
    /\ thr = NoThreads

\* the call CtsCalls[calls + 1] returned r
CtsCalled(r) ==
    /\ eng' = HelperCalled(eng, CtsSide, r)
    /\ last' = [NoOp EXCEPT !.op = CtsCalls[calls + 1], !.side = CtsSide,
                            !.hin = HelperOf(eng, CtsSide),
                            !.ivIn = CtxOf(eng, CtsSide).iv,
                            !.fin = [ret |-> r.ret, outl |-> r.outl, out |-> r.out],
                            !.hfin = r.h]
    /\ calls' = calls + 1
    /\ UNCHANGED <<sess, keymsg, thr>>

CtsReset ==
    /\ calls \in {0, 3}
    /\ CtsCalled(HRes(1, 0, <<>>, Reset(HelperOf(eng, CtsSide)), CtxOf(eng, CtsSide)))
    /\ UNCHANGED wire

CtsEncryptUpdateCTS ==
    /\ calls = 1
    /\ \E r \in {EncryptUpdateCTS(eng.m_encryptHelper, eng.m_encryptCtx,
                                   wire.plain, Len(wire.plain))} :
         /\ CtsCalled(r)
         /\ wire' = [wire EXCEPT !.cipher = Sub(r.out, 0, r.outl)]

CtsEncryptFinalCTS ==
    /\ calls = 2
    /\ \E r \in {EncryptFinalCTS(eng.m_encryptHelper, eng.m_encryptCtx)} :
         /\ CtsCalled(r)
         /\ wire' = [wire EXCEPT !.cipher = @ \o Sub(r.out, 0, r.outl)]

CtsDecryptUpdateCTS ==
    /\ calls = 4
    /\ \E r \in {DecryptUpdateCTS(eng.m_decryptHelper, eng.m_decryptCtx,
                                   wire.cipher, Len(wire.cipher))} :
         /\ CtsCalled(r)
         /\ wire' = [wire EXCEPT !.deciphered = Sub(r.out, 0, r.outl)]

CtsDecryptFinalCTS ==
    /\ calls = 5
    /\ \E r \in {DecryptFinalCTS(eng.m_decryptHelper, eng.m_decryptCtx)} :
         /\ CtsCalled(r)
         /\ wire' = [wire EXCEPT !.deciphered = @ \o Sub(r.out, 0, r.outl)]

NextCts ==
    \/ CtsReset
    \/ CtsEncryptUpdateCTS
    \/ CtsEncryptFinalCTS
    \/ CtsDecryptUpdateCTS
    \/ CtsDecryptFinalCTS

SpecCts == InitCts /\ [][NextCts]_vars

\* a plaintext longer than a block whose length is not a multiple of the block
Stealing ==
    /\ Len(wire.plain) > AES_BLOCK_SIZE
    /\ Len(wire.plain) % AES_BLOCK_SIZE # 0

\* the bytes of the ciphertext that come before its last two blocks
CtsBody == Len(wire.cipher) - AES_BLOCK_SIZE - (Len(wire.cipher) % AES_BLOCK_SIZE)

\* C18: for every key, IV and plaintext P with |P| > block_size and |P| mod
\* block_size # 0, the output C of Reset + EncryptUpdateCTS(P) +
\* EncryptFinalCTS has length |P|, and Reset + DecryptUpdateCTS(C) +
\* DecryptFinalCTS with the same key and IV returns exactly P; the IV held by
\* the decrypt context at entry to DecryptFinalCTS is the last full ciphertext
\* block the preceding update processed, or the packet IV when there is none.
CtsRoundTrip ==
    Stealing =>
        /\ calls >= 2 => last.fin.ret = 1
        /\ calls >= 3 => Len(wire.cipher) = Len(wire.plain)
        /\ calls = 6 =>
              /\ wire.deciphered = wire.plain
              /\ Sub(last.ivIn, 0, AES_BLOCK_SIZE) =
                    IF CtsBody > 0
                    THEN Sub(wire.cipher, CtsBody - AES_BLOCK_SIZE, AES_BLOCK_SIZE)
                    ELSE Sub(wire.iv, 0, AES_BLOCK_SIZE)

\* 37 bytes under AES-256 went through both helpers: the ciphertext differs
\* from the plaintext in its stolen tail, the update deciphered one block
\* before the final took over, and the plaintext came back
CtsRoundTripReached ==
    /\ calls = 6 /\ last.op = "DecryptFinalCTS" /\ last.fin.ret = 1
    /\ eng.m_algorithmOID = ID_AES256
    /\ Len(wire.plain) = 37 /\ Stealing /\ CtsBody = 16
    /\ Len(wire.cipher) = 37
    /\ Sub(wire.cipher, 32, 5) # Sub(wire.plain, 32, 5)
    /\ last.hin.final_used = 1 /\ last.hin.buf_len = 5
    /\ wire.deciphered = wire.plain

(***************************************************************************)
(* Properties of the packet operations                                     *)
(***************************************************************************)
Ceil16(n) == 16 * ((n + 15) \div 16)

\* C1: Encrypt(P, S, pad) followed by Decrypt of the returned ciphertext with
\* the same S and the pad value Encrypt produced returns exactly P, and pad
\* is false after Decrypt; for every supported cipher, seed (or none) and
\* plaintext length >= 0.
RoundTrip ==
    /\ (/\ last.op = "Decrypt" /\ wire.sent
        /\ last.in = wire.data /\ last.seq = wire.seq /\ last.padIn = wire.pad)
           => (last.out = wire.pt /\ last.padOut = FALSE)
    /\ calls = 0 =>
          \A len \in 0..MaxLen, S \in Seeds, p \in BOOLEAN :
             \A tail \in {3, 200} :
                LET P == Plain(len, tail)
                    c == Encrypt(eng, P, S, p)
                    d == Decrypt(c.e, c.out, S, c.pad)
                IN  d.out = P /\ d.pad = FALSE

\* a padded 17-byte plaintext came back from Decrypt after an Encrypt
RoundTripReached ==
    /\ last.op = "Decrypt" /\ wire.sent /\ calls = 2
    /\ last.in = wire.data /\ last.seq = wire.seq /\ last.padIn = wire.pad
    /\ Len(wire.pt) = 17 /\ wire.pad /\ last.out = wire.pt

\* C2: on an initialised engine Encrypt and EncryptInPlace return exactly
\* 16*ceil(L/16) bytes and set the padding flag to (L mod 16 # 0), whatever
\* the incoming flag; the ciphertext-stealing branch is never taken.
EncryptSizing ==
    /\ (last.op \in {"Encrypt", "EncryptInPlace"} /\ last.init)
           => /\ last.n = Ceil16(Len(last.in))
              /\ Len(last.out) = last.n
              /\ last.padOut = (Len(last.in) % 16 # 0)
              /\ ~last.cts
    /\ calls = 0 =>
          \A len \in 0..MaxLen, p \in BOOLEAN :
             LET P == Plain(len, 7)
                 c == Encrypt(eng, P, Seed1, p)
                 i == EncryptInPlace(eng, P, len, Seed1, p)
             IN  /\ Len(c.out) = Ceil16(len) /\ i.n = Ceil16(len)
                 /\ c.pad = (len % 16 # 0) /\ i.pad = (len % 16 # 0)
                 /\ ~c.cts /\ ~i.cts

\* EncryptInPlace turned 33 bytes, handed over with the flag clear, into 48
\* bytes with the flag set
EncryptSizingReached ==
    /\ last.op = "EncryptInPlace" /\ last.init /\ ~last.padIn
    /\ Len(last.in) = 33 /\ last.n = 48 /\ last.padOut /\ ~last.cts

\* the padded final step ran on a retained block
RelaxedFinalRan ==
    /\ last.op \in {"Decrypt", "DecryptInPlace", "ReadFrameInPlace"}
    /\ last.init /\ last.padIn /\ ~last.cts /\ last.upd.ret # 0
    /\ last.hfin.buf_len = 0 /\ last.hfin.final_used = 1

\* a helper that retains block b, on a context with padding enabled
Retaining(b) ==
    [NewHelper EXCEPT !.final_used = 1,
                      !.final_buf = Memcpy(NewHelper.final_buf, 0, b, Len(b))]

\* C4: with padding enabled, buf_len = 0 and a block retained in final_buf,
\* DecryptFinalRelaxed succeeds iff the last byte n of the retained block
\* satisfies 1 <= n <= block_size, whatever the other bytes are; on success it
\* emits exactly the first block_size - n bytes of the block, otherwise it
\* fails and emits 0 bytes.
RelaxedFinal ==
    /\ RelaxedFinalRan =>
          LET bl == AES_BLOCK_SIZE
              n == last.hfin.final_buf[bl]
          IN  /\ (last.fin.ret = 1) = (1 <= n /\ n <= bl)
              /\ last.fin.ret \in {0, 1}
              /\ last.fin.ret = 1 =>
                    /\ last.fin.outl = bl - n
                    /\ last.fin.out = Sub(last.hfin.final_buf, 0, bl - n)
              /\ last.fin.ret = 0 => (last.fin.outl = 0 /\ last.fin.out = <<>>)
    /\ calls = 0 =>
          \A n \in 0..255, f \in {0, 77} :
             LET bl == AES_BLOCK_SIZE
                 b == [i \in 1..bl |-> IF i = bl THEN n ELSE (f + 3 * i) % 256]
                 r == DecryptFinalRelaxed(Retaining(b),
                          EVP_CIPHER_CTX_set_padding(eng.m_decryptCtx, TRUE))
             IN  IF 1 <= n /\ n <= bl
                 THEN r.ret = 1 /\ r.outl = bl - n /\ r.out = Sub(b, 0, bl - n)
                 ELSE r.ret = 0 /\ r.outl = 0 /\ r.out = <<>>

\* Decrypt accepted a block that ends in 5 although its filler bytes are not
\* 5, and emitted the first 11 bytes
RelaxedFinalReached ==
    /\ RelaxedFinalRan /\ last.op = "Decrypt"
    /\ last.hfin.final_buf[16] = 5 /\ last.hfin.final_buf[15] # 5
    /\ last.fin.ret = 1 /\ last.fin.outl = 11 /\ Len(last.out) = 11

\* Decrypt or DecryptInPlace ran on a non-aligned payload with the flag clear
UnalignedUnpadded ==
    /\ last.op \in {"Decrypt", "DecryptInPlace"} /\ last.init
    /\ ~last.padIn /\ Len(last.in) >= 1 /\ Len(last.in) % AES_BLOCK_SIZE # 0

\* C5 as stated: every non-aligned payload of length L >= 1 presented with the
\* padding flag clear, the ones shorter than a block included, goes through
\* the CTS pair and comes back as exactly L bytes.
DecryptUnalignedAnyLength ==
    UnalignedUnpadded =>
        (last.cts /\ last.n = Len(last.in) /\ Len(last.out) = Len(last.in))

\* C5: every non-aligned payload presented with the padding flag clear goes
\* through the CTS pair; when it is longer than one block, Decrypt and
\* DecryptInPlace return exactly L bytes; when it is shorter than one block
\* the CTS final step fails and they return 0 bytes.
DecryptUnaligned ==
    /\ UnalignedUnpadded =>
          /\ last.cts
          /\ Len(last.in) > AES_BLOCK_SIZE =>
                (last.n = Len(last.in) /\ Len(last.out) = Len(last.in)
                 /\ last.upd.ret = 1 /\ last.fin.ret = 1)
          /\ Len(last.in) < AES_BLOCK_SIZE =>
                (last.n = 0 /\ last.out = <<>> /\ last.fin.ret = 0)
    /\ calls = 0 =>
          \A len \in 1..MaxLen :
             len % AES_BLOCK_SIZE # 0 =>
                LET d == Decrypt(eng, PeerPayload(len), Seed1, FALSE)
                    i == DecryptInPlace(eng, PeerPayload(len), len, Seed1, FALSE)
                    want == IF len > AES_BLOCK_SIZE THEN len ELSE 0
                IN  d.cts /\ i.cts /\ Len(d.out) = want /\ i.n = want

\* DecryptInPlace returned all 37 bytes of a non-aligned unpadded payload
DecryptUnalignedReached ==
    /\ UnalignedUnpadded /\ last.op = "DecryptInPlace"
    /\ Len(last.in) = 37 /\ last.cts /\ last.n = 37

\* a step of the decrypt pair failed on (in, pad): the four cases of a
\* payload that cannot be decrypted
FailingInput(len, pad, lastByte) ==
    \/ pad /\ len % AES_BLOCK_SIZE # 0
    \/ pad /\ len = 0
    \/ pad /\ len > 0 /\ len % AES_BLOCK_SIZE = 0
           /\ (lastByte = 0 \/ lastByte > AES_BLOCK_SIZE)
    \/ ~pad /\ len % AES_BLOCK_SIZE # 0 /\ len < AES_BLOCK_SIZE

\* C8: whenever the CTS pair or the padded update / relaxed final fails (bad
\* padding byte, padded input not a multiple of 16 or empty, unpadded
\* non-aligned input with no staged block), DecryptInPlace returns 0 and
\* ReadFrameInPlace sets the payload size to 0 and still returns true;
\* by-value Decrypt on the same input returns exactly the bytes the update
\* step produced (L - 16 for a padded aligned input with a bad padding byte)
\* with the padding flag false.
DecryptFailure ==
    /\ (last.op \in {"Decrypt", "DecryptInPlace", "ReadFrameInPlace"} /\ last.init) =>
          LET failed == last.upd.ret = 0 \/ last.fin.ret = 0
              L == Len(last.in)
              byValue == Decrypt(eng, last.in, last.seq, last.padIn)
          IN  /\ FailingInput(L, last.padIn,
                              last.hfin.final_buf[AES_BLOCK_SIZE]) => failed
              /\ (failed /\ last.op = "DecryptInPlace") => last.n = 0
              /\ (failed /\ last.op = "ReadFrameInPlace") =>
                    (last.n = 0 /\ last.out = <<>> /\ last.ret = TRUE)
              /\ (failed /\ last.op = "Decrypt") =>
                    /\ last.out = Sub(last.upd.out, 0, last.upd.outl)
                    /\ last.padOut = FALSE
              /\ failed =>
                    /\ byValue.out = Sub(last.upd.out, 0, last.upd.outl)
                    /\ byValue.pad = FALSE
                    /\ (last.padIn /\ L > 0 /\ L % AES_BLOCK_SIZE = 0) =>
                          Len(byValue.out) = L - AES_BLOCK_SIZE
    /\ calls = 0 =>
          \A len \in 0..MaxLen, pad \in BOOLEAN :
             LET in == PeerPayload(len)
                 d == Decrypt(eng, in, Seed1, pad)
                 i == DecryptInPlace(eng, in, len, Seed1, pad)
                 f == ReadFrameInPlace(eng, [payload |-> in, seq |-> Seed1,
                                             padding |-> pad])
                 failed == d.upd.ret = 0 \/ d.fin.ret = 0
             IN  /\ FailingInput(len, pad, d.hfin.final_buf[AES_BLOCK_SIZE])
                       => failed
                 /\ failed =>
                       /\ i.n = 0 /\ f.size = 0 /\ f.ret = TRUE
                       /\ d.out = Sub(d.upd.out, 0, d.upd.outl) /\ d.pad = FALSE
                       /\ (pad /\ len > 0 /\ len % AES_BLOCK_SIZE = 0) =>
                             Len(d.out) = len - AES_BLOCK_SIZE

\* ReadFrameInPlace dropped a padded 16-byte frame whose padding byte is 17:
\* payload size 0, result true
DecryptFailureReached ==
    /\ last.op = "ReadFrameInPlace" /\ last.init /\ last.padIn
    /\ Len(last.in) = 16 /\ last.hfin.final_buf[16] = 17
    /\ last.fin.ret = 0 /\ last.n = 0 /\ last.ret = TRUE

====
